---- MODULE Spec2Model ----
(***************************************************************************)
(* Machine simulation engine: MachineSystem / Machine frame seeking, the   *)
(* Motor activation state machine, the RotationSource / Pulley rotation    *)
(* network and the per-body ContactListener dispatch.                      *)
(*                                                                         *)
(* Numbers.  Phases (turns) are doubles in the source; here a phase is an  *)
(* integer count of 1/PhaseDen turn and a speed an integer count of        *)
(* 1/SpeedDen turn per second.  Every speed, radius ratio and frame        *)
(* duration used below is exact in these units.                            *)
(*                                                                         *)
(* Physics engine.  The rigid-body engine is a deterministic black box: a  *)
(* world is characterised by its generation (worldGen) and the number of   *)
(* Step calls it has received (worldSteps); the transform of a body is a   *)
(* function of the two.  The contact the engine reports is an input drawn  *)
(* in Init: bodies contactA and contactB begin touching during the         *)
(* contactStep-th Step of any world and keep touching afterwards.          *)
(***************************************************************************)
EXTENDS Integers, Sequences, FiniteSets, TLC

VARIABLES
    mCurrentFrame,     \* MachineSystem::mCurrentFrame
    mFrameRate,        \* Machine::mFrameRate (frames per second)
    mCurrFrame,        \* Machine::mCurrFrame
    worldGen,          \* which b2World Machine::mWorld points to (0 = the constructor's)
    worldSteps,        \* number of Step calls the current world has received
    mDispatch,         \* ContactListener::mDispatch of Machine::mContactListener
    mBody,             \* Component::mBody of every physics-backed component
    mState,            \* Motor::mState
    mRotation,         \* Motor::mRotation
    srcRotation,       \* RotationSource::mRotation of each motor's / pulley's source
    srcSpeed,          \* RotationSource::mSpeed
    pRotation,         \* Pulley::mRotation
    pSpeed,            \* Pulley::mSpeed
    sRotation,         \* Shape::mRotation
    bodyAngVel,        \* angular velocity written to a Shape's body
    eSpeed,            \* Elevator::mSpeed
    cSpeed,            \* Conveyor::mSpeed
    bodyType,          \* b2BodyType and fixture material each body was created with
    bodyPos,           \* position of each body's transform
    bodyAngle,         \* angle of each body's transform
    bodyLinVel,        \* linear velocity of each body, [x, y]
    bodyGravity,       \* gravity scale of each body
    sinkLog,           \* sink methods invoked during the last call, in order
    updateLog,         \* world step and component updates of the last Machine::Update
    installLog,        \* components installed by the last Machine::Reset, in order
    dispatched,        \* contact events of the last world Step with the handlers each reached
    initiallyRunning,  \* input: argument of Motor::SetInitiallyRunning for each motor
    contactStep,       \* input: the world Step during which the contact begins (0 = never)
    contactA,          \* input: body of the contact's fixture A
    contactB,          \* input: body of the contact's fixture B
    lastOp,            \* the last call made on the machine
    lastArgs,          \* arguments of the last call made on a rotation source
    apiCalls,          \* number of direct calls made on rotation sources
    sysFrameRate,      \* MachineSystem::mFrameRate
    gCurrentMachineNum,\* gCurrentMachineNum
    mMachines,         \* MachineSystem::mMachines, the entries other than machine 1
    seekFrame,         \* <<f>> once SetMachineFrame(f) was the last seek, <<>> before any
    drawLog,           \* drawing calls of the last MachineSystem::DrawMachine, in order
    systemB,           \* a second MachineSystem instance, once constructed
    poly,              \* a PhysicsPolygon on its own, with the body it is installed as
    net,               \* a wiring under construction and the call stack of one broadcast over it
    pc,                \* position of the stepping driver
    nextFrame,         \* next frame the stepping driver seeks to
    targetN,           \* frame the stepping driver runs to
    timelineFrame,     \* Timeline::GetCurrentFrame() as last given to the MachineDrawable
    snapshot           \* component state recorded by the driver at frame targetN

vars == <<mCurrentFrame, mFrameRate, mCurrFrame, worldGen, worldSteps, mDispatch,
          mBody, mState, mRotation, srcRotation, srcSpeed, pRotation, pSpeed,
          sRotation, bodyAngVel, eSpeed, cSpeed, bodyType, bodyPos, bodyAngle,
          bodyLinVel, bodyGravity, sinkLog, updateLog, installLog,
          dispatched, initiallyRunning, contactStep,
          contactA, contactB, lastOp, lastArgs, apiCalls, sysFrameRate,
          gCurrentMachineNum, mMachines, seekFrame, drawLog, systemB, poly, net,
          pc, nextFrame, targetN, timelineFrame, snapshot>>

----------------------------------------------------------------------------
(* Bounds *)

MaxFrame == 3

MaxWorldSteps == 3

MaxResets == 1

MaxContactStep == 2

MaxApiCalls == 2

MaxMachineNum == 3

MaxInstalls == 2

MaxWires == 3

MaxDepth == 8

----------------------------------------------------------------------------
(* Number representation and program constants *)

PhaseDen == 240

SpeedDen == 8

DefaultFrameRate == 30

ScenarioRates == {1, 2, 3, 5, 6, 10, 15, 30}

----------------------------------------------------------------------------
(* The machine built by the factory: two motors, three pulleys, three       *)
(* shapes, a conveyor and an elevator.  m1 -> p1 =belt=> p2 -> spoon, and   *)
(* m2 -> p3 -> conv, elev, floor.                                           *)

Motors == {"m1", "m2"}

Pulleys == {"p1", "p2", "p3"}

Shapes == {"floor", "ball", "spoon"}

Sources == Motors \cup Pulleys

Conveyors == {"conv"}

Elevators == {"elev"}

PhysComponents == Shapes \cup Motors \cup Conveyors \cup Elevators

mComponents == <<"floor", "ball", "m1", "p1", "p2", "spoon", "m2", "p3",
                 "conv", "elev">>

MotorSpeed == [m \in Motors |-> IF m = "m1" THEN 2 ELSE -2]

\* Motor::SetOscillating: the second motor is configured to oscillate
mIsOscillating == [m \in Motors |-> m = "m2"]

\* Motor::SetSpread(0.1), in phase units
mSpread == [m \in Motors |-> PhaseDen \div 10]

Radius == [p \in Pulleys |-> IF p = "p2" THEN 20 ELSE 10]

Behavior == [s \in Shapes |-> IF s = "spoon" THEN "Kinematic"
                              ELSE IF s = "ball" THEN "Dynamic" ELSE "Static"]

\* PhysicsPolygon::mType at installation: the shape's behavior, kinematic for an
\* elevator, the default b2_staticBody for a motor's box and a conveyor
PolygonType == [c \in PhysComponents |->
                  IF c \in Shapes THEN Behavior[c]
                  ELSE IF c \in Elevators THEN "Kinematic" ELSE "Static"]

\* density, friction, restitution (in tenths) given to SetPhysics
Material == [c \in PhysComponents |->
               IF c \in Elevators THEN <<10, 5, 0>> ELSE <<10, 5, 5>>]

\* Conveyor::mSpeedMultiplier, Elevator::mSpeedMultiplier (cm/s per turn/s)
mSpeedMultiplier == [c \in Conveyors \cup Elevators |-> 50]

MtoCM == 100

\* a linear velocity is an integer count of 1/VelDen m/s
VelDen == 16

\* speed * mSpeedMultiplier / Consts::MtoCM, in velocity units
VelocityMeters(speed, c) ==
    (speed * mSpeedMultiplier[c] * VelDen) \div (SpeedDen * MtoCM)

\* Values of a body's transform and velocity: the placement it was installed
\* with, a value written by the program, or whatever the engine computed in
\* its k-th Step.
InitialPlacement == <<"init", 0>>

Written(v) == <<"set", v>>

EngineValue(k) == <<"engine", k>>

NoBody == <<>>

NoSource == "none"

Body(gen, c) == <<gen, c>>

----------------------------------------------------------------------------
(* Wiring: RotationSource::AddSink and Pulley::Drive *)

Wiring0 ==
    [sinks  |-> [s \in Sources |-> <<>>],
     driven |-> [p \in Pulleys |-> <<>>],
     source |-> [c \in Pulleys \cup Shapes \cup Conveyors \cup Elevators |-> NoSource]]

AddSink(w, src, sink) ==
    [w EXCEPT !.sinks[src] = Append(@, sink), !.source[sink] = src]

PulleyDrive(w, u, d) ==
    AddSink([w EXCEPT !.driven[u] = Append(@, d)], u, d)

Wiring ==
    AddSink(
      AddSink(
        AddSink(
          AddSink(
            AddSink(
              PulleyDrive(
                AddSink(Wiring0, "m1", "p1"),
                "p1", "p2"),
              "p2", "spoon"),
            "m2", "p3"),
          "p3", "conv"),
        "p3", "elev"),
      "p3", "floor")

----------------------------------------------------------------------------
(* Arithmetic on phases *)

\* Motor::Update: while (r >= 1.0) r -= 1.0; while (r < 0.0) r += 1.0;
Wrap(x) == x % PhaseDen

\* std::fmod(x, 1.0): the result keeps the sign of x
Fmod1(x) == IF x >= 0 THEN x % PhaseDen ELSE 0 - ((0 - x) % PhaseDen)

\* mSpeed * elapsed, with elapsed = frameIndex / mFrameRate, in phase units
SpeedTimesElapsed(speed, simTime) ==
    (speed * simTime.num * PhaseDen) \div (SpeedDen * simTime.den)

----------------------------------------------------------------------------
(* The machine as one record, so that operations are functions on it *)

MachineState ==
    [mCurrFrame  |-> mCurrFrame,  mFrameRate  |-> mFrameRate,
     worldGen    |-> worldGen,    worldSteps  |-> worldSteps,
     mDispatch   |-> mDispatch,   mBody       |-> mBody,
     mState      |-> mState,      mRotation   |-> mRotation,
     srcRotation |-> srcRotation, srcSpeed    |-> srcSpeed,
     pRotation   |-> pRotation,   pSpeed      |-> pSpeed,
     sRotation   |-> sRotation,   bodyAngVel  |-> bodyAngVel,
     dispatched  |-> dispatched,
     eSpeed      |-> eSpeed,      cSpeed      |-> cSpeed,
     bodyType    |-> bodyType,    bodyPos     |-> bodyPos,
     bodyAngle   |-> bodyAngle,   bodyLinVel  |-> bodyLinVel,
     bodyGravity |-> bodyGravity, sinkLog     |-> sinkLog,
     updateLog   |-> updateLog,   installLog  |-> installLog]

\* the logs describe the last call only
ClearLogs(M) ==
    [M EXCEPT !.sinkLog = <<>>, !.updateLog = <<>>, !.installLog = <<>>,
              !.dispatched = <<>>]

----------------------------------------------------------------------------
(* Rotation propagation: RotationSource, Pulley, Shape *)

\* PhysicsPolygon::SetAngularVelocity(speed): body->SetAngularVelocity(speed * 2 pi).
\* An angular velocity <<c, k>> stands for c / SpeedDen * (2 pi)^k rad/s.
PolygonSetAngularVelocity(M, s, av) ==
    IF M.mBody[s] # NoBody
    THEN [M EXCEPT !.bodyAngVel[s] = <<av[1], av[2] + 1>>]
    ELSE M

\* a Rotate that writes the angular velocity whatever the shape's behavior
ShapeRotate_AnyBehavior(M, s, rotation, speed) ==
    LET M1 == [M EXCEPT !.sRotation[s] = rotation]
    IN  IF M1.mBody[s] = NoBody THEN M1
        ELSE PolygonSetAngularVelocity(M1, s, <<0 - speed, 1>>)

\* Shape::Rotate with the HandleSpeed of the shape's behavior
ShapeRotate(M, s, rotation, speed) ==
    LET M1 == [M EXCEPT !.sRotation[s] = rotation]
    IN  IF M1.mBody[s] = NoBody THEN M1
        ELSE CASE Behavior[s] = "Static"    -> M1
               [] Behavior[s] = "Dynamic"   -> PolygonSetAngularVelocity(M1, s, <<speed, 0>>)
               [] Behavior[s] = "Kinematic" -> PolygonSetAngularVelocity(M1, s, <<0 - speed, 1>>)

\* PhysicsPolygon::SetRotation(rotation) on an installed polygon.  Every
\* polygon of the machine is installed by the factory, so the branch that
\* caches the rotation of a polygon without a body is never taken.
PolygonSetRotation(M, s, rotation) ==
    IF M.mBody[s] # NoBody
    THEN [M EXCEPT !.bodyAngle[s] = Written(rotation), !.bodyGravity[s] = 0]
    ELSE M

\* Shape::SetRotation with the HandleRotation of the shape's behavior
ShapeSetRotation(M, s, rotation) ==
    LET M1 == [M EXCEPT !.sRotation[s] = rotation]
    IN  IF M1.mBody[s] = NoBody THEN M1
        ELSE CASE Behavior[s] = "Static"    -> M1
               [] Behavior[s] = "Dynamic"   -> PolygonSetRotation(M1, s, rotation)
               [] Behavior[s] = "Kinematic" -> PolygonSetRotation(M1, s, rotation)

\* Elevator::SetRotation(rotation): empty
ElevatorSetRotation(M, e, rotation) == M

\* an elevator that moves at a fixed speed whatever the speed it receives
ElevatorRotate_UnitSpeed(M, e, rotation, speed) ==
    LET M1 == [M EXCEPT !.eSpeed[e] = speed]
    IN  IF M1.mBody[e] = NoBody THEN M1
        ELSE [M1 EXCEPT !.bodyGravity[e] = 0,
                        !.bodyLinVel[e] = [x |-> Written(0), y |-> Written(VelDen)]]

\* Elevator::Rotate(rotation, speed)
ElevatorRotate(M, e, rotation, speed) ==
    LET M1 == [M EXCEPT !.eSpeed[e] = speed]
    IN  IF M1.mBody[e] = NoBody THEN M1
        ELSE [M1 EXCEPT !.bodyGravity[e] = 0,
                        !.bodyLinVel[e] = [x |-> Written(0),
                                           y |-> Written(VelocityMeters(speed, e))]]

\* Conveyor::SetRotation(rotation): empty
ConveyorSetRotation(M, c, rotation) == M

\* Conveyor::Rotate(rotation, speed): mSpeed = -speed
ConveyorRotate(M, c, rotation, speed) ==
    [M EXCEPT !.cSpeed[c] = 0 - speed]

RECURSIVE PushDriven(_, _, _, _, _)
RECURSIVE BroadcastSinks(_, _, _, _, _)
RECURSIVE PulleyRotate(_, _, _, _)
RECURSIVE RotationSourceSetRotation(_, _, _, _)
RECURSIVE SendDownstream(_, _, _, _)
RECURSIVE BroadcastSinks_Reversed(_, _, _, _, _)
RECURSIVE PulleySetRotation(_, _, _)

\* IRotationSink::Rotate, by the dynamic type of the sink
SinkRotate(M, c, angle, speed) ==
    IF c \in Pulleys THEN PulleyRotate(M, c, angle, speed)
    ELSE IF c \in Shapes THEN ShapeRotate(M, c, angle, speed)
    ELSE IF c \in Elevators THEN ElevatorRotate(M, c, angle, speed)
    ELSE IF c \in Conveyors THEN ConveyorRotate(M, c, angle, speed)
    ELSE M

\* IRotationSink::SetRotation, by the dynamic type of the sink
SinkSetRotation(M, c, angle) ==
    IF c \in Pulleys THEN PulleySetRotation(M, c, angle)
    ELSE IF c \in Shapes THEN ShapeSetRotation(M, c, angle)
    ELSE IF c \in Elevators THEN ElevatorSetRotation(M, c, angle)
    ELSE IF c \in Conveyors THEN ConveyorSetRotation(M, c, angle)
    ELSE M

\* a sink method is entered: what the source holds at that moment is recorded
SinkCalled(M, src, sink, method, angle, speed) ==
    [M EXCEPT !.sinkLog = Append(@,
        [src |-> src, sink |-> sink, method |-> method, angle |-> angle,
         speed |-> speed,
         stored |-> <<M.srcRotation[src], M.srcSpeed[src]>>])]

\* a broadcast that visits the sinks last-registered first
BroadcastSinks_Reversed(M, src, i, angle, speed) ==
    IF i > Len(Wiring.sinks[src]) THEN M
    ELSE LET s == Wiring.sinks[src][Len(Wiring.sinks[src]) + 1 - i]
         IN  BroadcastSinks_Reversed(
                 SinkRotate(SinkCalled(M, src, s, "Rotate", angle, <<speed>>),
                            s, angle, speed),
                 src, i + 1, angle, speed)

\* the for_each over mSinks in RotationSource::SetRotation(angle, speed)
BroadcastSinks(M, src, i, angle, speed) ==
    IF i > Len(Wiring.sinks[src]) THEN M
    ELSE LET s == Wiring.sinks[src][i]
         IN  BroadcastSinks(
                 SinkRotate(SinkCalled(M, src, s, "Rotate", angle, <<speed>>),
                            s, angle, speed),
                 src, i + 1, angle, speed)

RECURSIVE BroadcastSinksPhase(_, _, _, _)
\* the for_each over mSinks in RotationSource::SetRotation(angle)
BroadcastSinksPhase(M, src, i, angle) ==
    IF i > Len(Wiring.sinks[src]) THEN M
    ELSE LET s == Wiring.sinks[src][i]
         IN  BroadcastSinksPhase(
                 SinkSetRotation(SinkCalled(M, src, s, "SetRotation", angle, <<>>),
                                 s, angle),
                 src, i + 1, angle)

\* RotationSource::SetRotation(double angle)
RotationSourceSetRotationPhase(M, src, angle) ==
    BroadcastSinksPhase([M EXCEPT !.srcRotation[src] = angle], src, 1, angle)

\* a SetRotation that stores the values without notifying the sinks
RotationSourceSetRotation_StoreOnly(M, src, angle, speed) ==
    [M EXCEPT !.srcRotation[src] = angle, !.srcSpeed[src] = speed]

\* RotationSource::SetRotation(double angle, double speed)
RotationSourceSetRotation(M, src, angle, speed) ==
    BroadcastSinks([M EXCEPT !.srcRotation[src] = angle, !.srcSpeed[src] = speed],
                   src, 1, angle, speed)

\* the for_each over mDrivenPulleys in Pulley::Rotate (the lambda push)
PushDriven(M, p, i, angle, speed) ==
    IF i > Len(Wiring.driven[p]) THEN M
    ELSE LET d          == Wiring.driven[p][i]
             childSpeed == (speed * Radius[p]) \div Radius[d]
             childAngle == Fmod1((angle * Radius[p]) \div Radius[d])
         IN  PushDriven(PulleyRotate(M, d, childAngle, childSpeed),
                        p, i + 1, angle, speed)

\* Pulley::Rotate(double angle, double speed)
PulleyRotate(M, p, angle, speed) ==
    LET M1 == [M EXCEPT !.pRotation[p] = angle, !.pSpeed[p] = speed]
        M2 == PushDriven(M1, p, 1, angle, speed)
    IN  RotationSourceSetRotation(M2, p, M2.pRotation[p], M2.pSpeed[p])

\* the for_each over mDrivenPulleys in Pulley::SetRotation (sendDownstream)
SendDownstream(M, p, i, angle) ==
    IF i > Len(Wiring.driven[p]) THEN M
    ELSE LET d        == Wiring.driven[p][i]
             newSpeed == (M.pSpeed[p] * Radius[p]) \div Radius[d]
             newAngle == Fmod1((angle * Radius[p]) \div Radius[d])
         IN  SendDownstream(
                 PulleySetRotation([M EXCEPT !.pSpeed[d] = newSpeed], d, newAngle),
                 p, i + 1, angle)

\* Pulley::SetRotation(double angle)
PulleySetRotation(M, p, angle) ==
    LET M1 == [M EXCEPT !.pRotation[p] = angle]
        M2 == SendDownstream(M1, p, 1, angle)
    IN  RotationSourceSetRotation(M2, p, M2.pRotation[p], M2.pSpeed[p])

----------------------------------------------------------------------------
(* Motor *)

\* a SetInitiallyRunning that ignores its argument
SetInitiallyRunning_Always(state, running) == "Active"

\* Motor::SetInitiallyRunning(bool running)
SetInitiallyRunning(state, running) == IF running THEN "Active" ELSE state

\* a BeginContact that toggles the motor instead of starting it
MotorBeginContact_Toggle(M, m, a, b) ==
    IF M.mBody[m] # NoBody /\ (a = M.mBody[m] \/ b = M.mBody[m])
    THEN [M EXCEPT !.mState[m] = IF @ = "Active" THEN "Idle" ELSE "Active"]
    ELSE M

\* Motor::BeginContact(b2Contact*), the contact being between bodies a and b
MotorBeginContact(M, m, a, b) ==
    IF M.mBody[m] # NoBody /\ (a = M.mBody[m] \/ b = M.mBody[m])
    THEN [M EXCEPT !.mState[m] = "Active"]
    ELSE M

\* an Update without the test of mState
MotorUpdate_Unguarded(M, m, elapsed) ==
    LET r == Wrap(M.mRotation[m] + SpeedTimesElapsed(MotorSpeed[m], elapsed))
    IN  RotationSourceSetRotation([M EXCEPT !.mRotation[m] = r],
                                  m, r, MotorSpeed[m])

\* Motor::Update(double elapsed)
MotorUpdate(M, m, elapsed) ==
    IF M.mState[m] = "Active"
    THEN LET r == Wrap(M.mRotation[m] + SpeedTimesElapsed(MotorSpeed[m], elapsed))
         IN  RotationSourceSetRotation([M EXCEPT !.mRotation[m] = r],
                                       m, r, MotorSpeed[m])
    ELSE M

----------------------------------------------------------------------------
(* ContactListener *)

\* an Add that keeps the handler a body already has
ContactListenerAdd_KeepFirst(dispatch, body, listener) ==
    IF body \in DOMAIN dispatch
    THEN dispatch
    ELSE [x \in DOMAIN dispatch \cup {body} |->
             IF x = body THEN listener ELSE dispatch[x]]

\* ContactListener::Add(body, listener): mDispatch[body] = listener
ContactListenerAdd(dispatch, body, listener) ==
    [x \in DOMAIN dispatch \cup {body} |->
        IF x = body THEN listener ELSE dispatch[x]]

\* a ShouldDispatch that looks up fixture A's body whatever the selector
ShouldDispatch_FirstBodyOnly(dispatch, a, b, body) ==
    IF a \in DOMAIN dispatch
    THEN <<TRUE, dispatch[a]>>
    ELSE <<FALSE, "none">>

\* ContactListener::ShouldDispatch: <<found, listener>>
ShouldDispatch(dispatch, a, b, body) ==
    LET bodyPtr == IF body = 1 THEN a ELSE b
    IN  IF bodyPtr \in DOMAIN dispatch
        THEN <<TRUE, dispatch[bodyPtr]>>
        ELSE <<FALSE, "none">>

\* the listener's BeginContact: Motor overrides it, b2ContactListener's is empty
ListenerBeginContact(M, l, a, b) ==
    IF l \in Motors THEN MotorBeginContact(M, l, a, b) ELSE M

\* the listener's PreSolve: b2ContactListener's empty default for a Motor
ListenerPreSolve(M, l, a, b) == M

\* the dispatcher receives an event / forwards it to listener l
EventReceived(M, kind, a, b) ==
    [M EXCEPT !.dispatched = Append(@,
        [kind |-> kind, a |-> a, b |-> b, handlers |-> <<>>])]

Forwarded(M, l) ==
    [M EXCEPT !.dispatched[Len(M.dispatched)].handlers = Append(@, l)]

\* ContactListener::BeginContact
ContactListenerBeginContact(M, a, b) ==
    LET M0 == EventReceived(M, "BeginContact", a, b)
        d1 == ShouldDispatch(M0.mDispatch, a, b, 1)
        M1 == IF d1[1] THEN ListenerBeginContact(Forwarded(M0, d1[2]), d1[2], a, b)
              ELSE M0
        d2 == ShouldDispatch(M1.mDispatch, a, b, 2)
    IN  IF d2[1] THEN ListenerBeginContact(Forwarded(M1, d2[2]), d2[2], a, b)
        ELSE M1

\* ContactListener::PreSolve
ContactListenerPreSolve(M, a, b) ==
    LET M0 == EventReceived(M, "PreSolve", a, b)
        d1 == ShouldDispatch(M0.mDispatch, a, b, 1)
        M1 == IF d1[1] THEN ListenerPreSolve(Forwarded(M0, d1[2]), d1[2], a, b)
              ELSE M0
        d2 == ShouldDispatch(M1.mDispatch, a, b, 2)
    IN  IF d2[1] THEN ListenerPreSolve(Forwarded(M1, d2[2]), d2[2], a, b)
        ELSE M1

----------------------------------------------------------------------------
(* The physics world's Step: the contact events it reports *)

\* the angular velocity a body has: only shapes are given one
AngVelOf(M, c) == IF c \in Shapes THEN M.bodyAngVel[c] ELSE <<0, 0>>

Resting == [x |-> Written(0), y |-> Written(0)]

\* b2World::Step as seen through the bodies: the engine integrates every
\* dynamic body, and a kinematic body along the velocities it was given;
\* static bodies stay.  What it computes is not modelled, only that it did.
EngineMove(M, k) ==
    LET installed(c) == M.mBody[c] # NoBody
        type(c)      == M.bodyType[c].type
        moves(c)     == installed(c) /\
                        (type(c) = "Dynamic" \/
                         (type(c) = "Kinematic" /\ M.bodyLinVel[c] # Resting))
        turns(c)     == installed(c) /\
                        (type(c) = "Dynamic" \/
                         (type(c) = "Kinematic" /\ AngVelOf(M, c)[1] # 0))
    IN  [M EXCEPT
           !.bodyPos    = [c \in PhysComponents |->
                             IF moves(c) THEN EngineValue(k) ELSE M.bodyPos[c]],
           !.bodyAngle  = [c \in PhysComponents |->
                             IF turns(c) THEN EngineValue(k) ELSE M.bodyAngle[c]],
           !.bodyLinVel = [c \in PhysComponents |->
                             IF installed(c) /\ type(c) = "Dynamic"
                             THEN [x |-> EngineValue(k), y |-> EngineValue(k)]
                             ELSE M.bodyLinVel[c]]]

\* b2Body::GetContactList with IsTouching: the components whose bodies touch
\* the body of c in the current world
Touching(M, c) ==
    IF contactStep # 0 /\ M.worldSteps >= contactStep
    THEN (IF contactA = c THEN {contactB} ELSE {}) \cup
         (IF contactB = c THEN {contactA} ELSE {})
    ELSE {}

\* b2World::Step as seen through the contact listener: BeginContact when the
\* two bodies start touching, PreSolve on that and every later step.
WorldStep(M) ==
    LET k  == M.worldSteps + 1
        a  == Body(M.worldGen, contactA)
        b  == Body(M.worldGen, contactB)
        M0 == [EngineMove(M, k) EXCEPT !.worldSteps = k, !.dispatched = <<>>,
                                       !.updateLog = Append(@, "Step")]
    IN  IF contactStep = 0 \/ k < contactStep THEN M0
        ELSE IF k = contactStep
             THEN ContactListenerPreSolve(ContactListenerBeginContact(M0, a, b), a, b)
             ELSE ContactListenerPreSolve(M0, a, b)

----------------------------------------------------------------------------
(* Machine *)

\* an Update that does not test the elevator's body
ElevatorUpdate_Unguarded(M, e, time) ==
    IF M.eSpeed[e] # 0
    THEN LET v == Written(VelocityMeters(M.eSpeed[e], e))
         IN  [M EXCEPT
                !.bodyGravity[e] = 0,
                !.bodyLinVel = [c \in PhysComponents |->
                    IF c = e THEN [x |-> Written(0), y |-> v]
                    ELSE IF c \in Touching(M, e) /\ M.bodyType[c].type = "Dynamic"
                         THEN [x |-> M.bodyLinVel[c].x, y |-> v]
                         ELSE M.bodyLinVel[c]]]
    ELSE M

\* Elevator::Update(time)
ElevatorUpdate(M, e, time) ==
    IF M.mBody[e] # NoBody /\ M.eSpeed[e] # 0
    THEN LET v == Written(VelocityMeters(M.eSpeed[e], e))
         IN  [M EXCEPT
                !.bodyGravity[e] = 0,
                !.bodyLinVel = [c \in PhysComponents |->
                    IF c = e THEN [x |-> Written(0), y |-> v]
                    ELSE IF c \in Touching(M, e) /\ M.bodyType[c].type = "Dynamic"
                         THEN [x |-> M.bodyLinVel[c].x, y |-> v]
                         ELSE M.bodyLinVel[c]]]
    ELSE M

\* Conveyor::Update(time)
ConveyorUpdate(M, cv, time) ==
    IF M.mBody[cv] = NoBody \/ M.cSpeed[cv] = 0 THEN M
    ELSE LET v == Written(VelocityMeters(M.cSpeed[cv], cv))
         IN  [M EXCEPT
                !.bodyLinVel = [c \in PhysComponents |->
                    IF c \in Touching(M, cv) /\ M.bodyType[c].type = "Dynamic"
                    THEN [x |-> v, y |-> M.bodyLinVel[c].y]
                    ELSE M.bodyLinVel[c]]]

\* Component::Update by the dynamic type of the component
ComponentUpdate(M, c, simTime) ==
    LET M1 == [M EXCEPT !.updateLog = Append(@, c)]
    IN  IF c \in Motors THEN MotorUpdate(M1, c, simTime)
        ELSE IF c \in Elevators THEN ElevatorUpdate(M1, c, simTime)
        ELSE IF c \in Conveyors THEN ConveyorUpdate(M1, c, simTime)
        ELSE M1

RECURSIVE UpdateComponents(_, _, _)
\* the loop over mComponents in Machine::Update
UpdateComponents(M, i, simTime) ==
    IF i > Len(mComponents) THEN M
    ELSE UpdateComponents(ComponentUpdate(M, mComponents[i], simTime), i + 1, simTime)

\* an Update that runs the components before the world step
MachineUpdate_ComponentsFirst(M, simTime) ==
    WorldStep(UpdateComponents(ClearLogs(M), 1, simTime))

\* Machine::Update(double simTime)
MachineUpdate(M, simTime) ==
    UpdateComponents(WorldStep(ClearLogs(M)), 1, simTime)

\* a SetFrame that does nothing when the machine is already at the frame
MachineSetFrame_SkipSameFrame(M, frameIndex) ==
    IF frameIndex = M.mCurrFrame THEN ClearLogs(M)
    ELSE MachineUpdate([M EXCEPT !.mCurrFrame = frameIndex],
                       [num |-> frameIndex, den |-> M.mFrameRate])

\* Machine::SetFrame(int frameIndex)
MachineSetFrame(M, frameIndex) ==
    LET simTime == [num |-> frameIndex, den |-> M.mFrameRate]
    IN  MachineUpdate([M EXCEPT !.mCurrFrame = frameIndex], simTime)

\* a body as b2World::CreateBody and PhysicsPolygon::InstallPhysics leave it
NewBody(c) ==
    [type |-> PolygonType[c], material |-> Material[c]]

\* an installation that carries the old body's transform into the new body
PolygonInstallPhysics_KeepTransform(M, c) ==
    [M EXCEPT !.mBody[c]       = Body(M.worldGen, c),
              !.bodyType[c]    = NewBody(c),
              !.bodyLinVel[c]  = Resting,
              !.bodyGravity[c] = 1,
              !.bodyAngVel     = [s \in Shapes |-> IF s = c THEN <<0, 0>> ELSE @[s]],
              !.installLog     = Append(@, c)]

\* PhysicsPolygon::InstallPhysics(world) followed by Component::SetBody
PolygonInstallPhysics(M, c) ==
    [M EXCEPT !.mBody[c]       = Body(M.worldGen, c),
              !.bodyType[c]    = NewBody(c),
              !.bodyPos[c]     = InitialPlacement,
              !.bodyAngle[c]   = InitialPlacement,
              !.bodyLinVel[c]  = Resting,
              !.bodyGravity[c] = 1,
              !.bodyAngVel     = [s \in Shapes |-> IF s = c THEN <<0, 0>> ELSE @[s]],
              !.installLog     = Append(@, c)]

RECURSIVE ReinstallComponents(_, _)
RECURSIVE ReinstallComponents_NoElevator(_, _)
\* a Reset loop that forgets the elevators
ReinstallComponents_NoElevator(M, i) ==
    IF i > Len(mComponents) THEN M
    ELSE LET c == mComponents[i]
             b == Body(M.worldGen, c)
             M1 == IF c \in Shapes \cup Conveyors
                   THEN PolygonInstallPhysics(M, c)
                   ELSE IF c \in Motors
                   THEN [PolygonInstallPhysics(M, c) EXCEPT
                                  !.mDispatch = [x \in DOMAIN @ \cup {b} |->
                                                   IF x = b THEN c ELSE @[x]]]
                   ELSE M
         IN  ReinstallComponents_NoElevator(M1, i + 1)

\* the loop over mComponents in Machine::Reset
ReinstallComponents(M, i) ==
    IF i > Len(mComponents) THEN M
    ELSE LET c == mComponents[i]
             b == Body(M.worldGen, c)
             M1 == IF c \in Shapes
                   THEN PolygonInstallPhysics(M, c)
                   ELSE IF c \in Motors
                   THEN [PolygonInstallPhysics(M, c) EXCEPT
                                  !.mDispatch = [x \in DOMAIN @ \cup {b} |->
                                                   IF x = b THEN c ELSE @[x]]]
                   ELSE IF c \in Conveyors
                   THEN PolygonInstallPhysics(M, c)
                   ELSE IF c \in Elevators
                   THEN PolygonInstallPhysics(M, c)
                   ELSE M
         IN  ReinstallComponents(M1, i + 1)

\* Machine::Reset()
MachineReset(M) ==
    ReinstallComponents(
        [ClearLogs(M) EXCEPT !.worldGen = @ + 1, !.worldSteps = 0,
                             !.mDispatch = << >>], 1)

\* the machine as the factory leaves it, motors configured by SetInitiallyRunning
Constructed(rate, running) ==
    [mCurrFrame  |-> 0,
     mFrameRate  |-> rate,
     worldGen    |-> 0,
     worldSteps  |-> 0,
     mDispatch   |-> [x \in {Body(0, m) : m \in Motors} |-> x[2]],
     mBody       |-> [c \in PhysComponents |-> Body(0, c)],
     mState      |-> [m \in Motors |-> SetInitiallyRunning("Idle", running[m])],
     mRotation   |-> [m \in Motors |-> 0],
     srcRotation |-> [x \in Sources |-> 0],
     srcSpeed    |-> [x \in Sources |-> 0],
     pRotation   |-> [x \in Pulleys |-> 0],
     pSpeed      |-> [x \in Pulleys |-> 0],
     sRotation   |-> [x \in Shapes |-> 0],
     bodyAngVel  |-> [x \in Shapes |-> <<0, 0>>],
     dispatched  |-> <<>>,
     eSpeed      |-> [x \in Elevators |-> 0],
     cSpeed      |-> [x \in Conveyors |-> 0],
     bodyType    |-> [c \in PhysComponents |-> NewBody(c)],
     bodyPos     |-> [c \in PhysComponents |-> InitialPlacement],
     bodyAngle   |-> [c \in PhysComponents |-> InitialPlacement],
     bodyLinVel  |-> [c \in PhysComponents |-> Resting],
     bodyGravity |-> [c \in PhysComponents |-> 1],
     sinkLog     |-> <<>>,
     updateLog   |-> <<>>,
     installLog  |-> <<>>]

\* a machine whose components in missing were added without InstallPhysics
\* and SetBody: they have no body and their motors are not registered
ConstructedWithout(rate, running, missing) ==
    [Constructed(rate, running) EXCEPT
        !.mBody     = [c \in PhysComponents |->
                          IF c \in missing THEN NoBody ELSE @[c]],
        !.mDispatch = [x \in {Body(0, m) : m \in Motors \ missing} |-> x[2]]]

\* the machine as the factory revision leaves it that also calls
\* contactListener->Add for the conveyor and the elevator
ConstructedWithHandlers(rate, running) ==
    [Constructed(rate, running) EXCEPT
        !.mDispatch = [x \in {Body(0, c) : c \in Motors \cup Conveyors \cup Elevators}
                          |-> x[2]]]

\* what a caller can observe of the components: activation states, phases,
\* speeds, and the body transforms (a function of the world's step count)
Observable(M) ==
    [mState     |-> M.mState,     mRotation  |-> M.mRotation,
     pRotation  |-> M.pRotation,  pSpeed     |-> M.pSpeed,
     sRotation  |-> M.sRotation,  bodyAngVel |-> M.bodyAngVel,
     worldSteps |-> M.worldSteps]

----------------------------------------------------------------------------
(* Drawing.  What reaches the graphics context is recorded as the sequence *)
(* of drawing calls made on the components.                                 *)

\* the components of machine n: GetOrCreateMachine gives components to machine 1 only
MachineComponents(n) == IF n = 1 THEN mComponents ELSE <<>>

RECURSIVE DrawBeltsPass(_, _)
\* first loop of Machine::Draw: Pulley::DrawBelts on every pulley
DrawBeltsPass(comps, i) ==
    IF i > Len(comps) THEN <<>>
    ELSE (IF comps[i] \in Pulleys
          THEN <<[call |-> "DrawBelts", c |-> comps[i],
                  to |-> Wiring.driven[comps[i]]]>>
          ELSE <<>>) \o DrawBeltsPass(comps, i + 1)

RECURSIVE DrawComponentsPass(_, _)
\* second loop of Machine::Draw: Component::Draw on every component
DrawComponentsPass(comps, i) ==
    IF i > Len(comps) THEN <<>>
    ELSE <<[call |-> "Draw", c |-> comps[i], to |-> <<>>]>>
         \o DrawComponentsPass(comps, i + 1)

\* a Draw that draws each pulley's belts just before the pulley
MachineDraw_SinglePass(comps) ==
    LET RECURSIVE Single(_)
        Single(i) ==
            IF i > Len(comps) THEN <<>>
            ELSE (IF comps[i] \in Pulleys
                  THEN <<[call |-> "DrawBelts", c |-> comps[i],
                          to |-> Wiring.driven[comps[i]]]>>
                  ELSE <<>>)
                 \o <<[call |-> "Draw", c |-> comps[i], to |-> <<>>]>>
                 \o Single(i + 1)
    IN  Single(1)

\* Machine::Draw(gfx)
MachineDraw(comps) == DrawBeltsPass(comps, 1) \o DrawComponentsPass(comps, 1)

\* const double MotorSpeed = 4.0 of Motor.cpp: cycles of the four active
\* images per revolution (MotorSpeed above is the per-motor mSpeed)
ImageCyclesPerRevolution == 4

\* std::vector mImages: the idle image and four active images
NumImages == 5

\* a Draw that goes through the four active images once per revolution
MotorDraw_OneCycle(state, rotation, speed) ==
    LET frameIndex == (((rotation * 4) \div PhaseDen) % 4) + 1
    IN  [call     |-> "Motor.Draw",
         mirrored |-> speed < 0,
         image    |-> IF state = "Active"
                      THEN (IF frameIndex >= 1 /\ frameIndex <= 4 /\ frameIndex < NumImages
                            THEN <<frameIndex>> ELSE <<>>)
                      ELSE <<0>>,
         wheel    |-> state = "Active"]

\* Motor::Draw(graphics): whether the artwork is mirrored, the index of the
\* image drawn (none if out of range) and whether the wheel is drawn
MotorDraw(state, rotation, speed) ==
    LET framesPerRevolution == ImageCyclesPerRevolution * 4
        frameIndex == (((rotation * framesPerRevolution) \div PhaseDen) % 4) + 1
    IN  [call     |-> "Motor.Draw",
         mirrored |-> speed < 0,
         image    |-> IF state = "Active"
                      THEN (IF frameIndex >= 1 /\ frameIndex <= 4 /\ frameIndex < NumImages
                            THEN <<frameIndex>> ELSE <<>>)
                      ELSE <<0>>,
         wheel    |-> state = "Active"]

----------------------------------------------------------------------------
(* A PhysicsPolygon on its own.  Lengths given to the polygon are integer   *)
(* centimetres; a b2Vec2 holds metres, here an integer count of 1/MeterDen  *)
(* metre (the rounding of the float coordinates is not modelled).  An angle *)
(* <<c, k>> stands for c / PhaseDen * (2 pi)^k: a rotation in turns has     *)
(* k = 0, an angle in radians k = 1.                                        *)

MeterDen == 1000

\* x / Consts::MtoCM
ToMeters(v) == <<(v[1] * MeterDen) \div MtoCM, (v[2] * MeterDen) \div MtoCM>>

\* position.x * Consts::MtoCM
ToCM(v) == <<(v[1] * MtoCM) \div MeterDen, (v[2] * MtoCM) \div MeterDen>>

\* r * M_PI * 2
TimesTwoPi(a) == IF a[1] = 0 THEN <<0, 0>> ELSE <<a[1], a[2] + 1>>

\* a / (M_PI * 2)
OverTwoPi(a) == IF a[1] = 0 THEN <<0, 0>> ELSE <<a[1], a[2] - 1>>

\* PhysicsPolygon's member initialisers; created counts the bodies made for it
NewPolygon ==
    [mBody            |-> NoBody,
     mInitialRotation |-> <<0, 0>>,
     mInitialPosition |-> <<0, 0>>,
     mType            |-> "Static",
     mDensity         |-> 10,
     mFriction        |-> 5,
     mRestitution     |-> 5,
     created          |-> 0]

\* PhysicsPolygon::SetInitialPosition(x, y)
PhysicsPolygonSetInitialPosition(P, position) ==
    [P EXCEPT !.mInitialPosition = position]

\* PhysicsPolygon::SetInitialRotation(r)
PhysicsPolygonSetInitialRotation(P, r) ==
    [P EXCEPT !.mInitialRotation = TimesTwoPi(r)]

\* PhysicsPolygon::InstallPhysics(world): the body and its fixture are made
\* from the stored type and material, then moved to the initial placement
PhysicsPolygonInstallPhysics(P) ==
    [P EXCEPT !.created = @ + 1,
              !.mBody = [id           |-> P.created + 1,
                         type         |-> P.mType,
                         density      |-> P.mDensity,
                         friction     |-> P.mFriction,
                         restitution  |-> P.mRestitution,
                         position     |-> ToMeters(P.mInitialPosition),
                         angle        |-> P.mInitialRotation,
                         gravityScale |-> 1]]

\* a SetPosition that also records the position as the initial one
PhysicsPolygonSetPosition_AlsoInitial(P, position) ==
    IF P.mBody # NoBody
    THEN [P EXCEPT !.mBody.position = ToMeters(position),
                   !.mBody.gravityScale = 0,
                   !.mInitialPosition = position]
    ELSE PhysicsPolygonSetInitialPosition(P, position)

\* PhysicsPolygon::SetPosition(x, y)
PhysicsPolygonSetPosition(P, position) ==
    IF P.mBody # NoBody
    THEN [P EXCEPT !.mBody.position = ToMeters(position),
                   !.mBody.gravityScale = 0]
    ELSE PhysicsPolygonSetInitialPosition(P, position)

\* PhysicsPolygon::GetPosition()
PhysicsPolygonGetPosition(P) ==
    IF P.mBody # NoBody
    THEN ToCM(P.mBody.position)
    ELSE P.mInitialPosition

\* PhysicsPolygon::SetRotation(rotation)
PhysicsPolygonSetRotation(P, rotation) ==
    IF P.mBody # NoBody
    THEN [P EXCEPT !.mBody.angle = TimesTwoPi(rotation),
                   !.mBody.gravityScale = 0]
    ELSE PhysicsPolygonSetInitialRotation(P, rotation)

\* PhysicsPolygon::GetRotation()
PhysicsPolygonGetRotation(P) ==
    IF P.mBody # NoBody
    THEN OverTwoPi(P.mBody.angle)
    ELSE OverTwoPi(P.mInitialRotation)

\* PhysicsPolygon::SetDynamic()
PhysicsPolygonSetDynamic(P) == [P EXCEPT !.mType = "Dynamic"]

\* PhysicsPolygon::SetKinematic()
PhysicsPolygonSetKinematic(P) == [P EXCEPT !.mType = "Kinematic"]

\* PhysicsPolygon::SetPhysics(density, friction, restitution)
PhysicsPolygonSetPhysics(P, density, friction, restitution) ==
    [P EXCEPT !.mDensity = density, !.mFriction = friction,
              !.mRestitution = restitution]

----------------------------------------------------------------------------
(* A second MachineSystem.  Only its constructor and ChooseMachine are      *)
(* called, so its machines stay as GetOrCreateMachine built them and the    *)
(* instance is described by the numbers of the machines it has created.     *)

NoSystem == <<>>

\* a MachineSystem as its constructor leaves it: ChooseMachine(1) created machine 1
NewSystem == [mFrameRate |-> DefaultFrameRate, mCurrentFrame |-> 0, created |-> {1}]

----------------------------------------------------------------------------
(* The calls one broadcast makes over a wiring: RotationSource::SetRotation *)
(* calls Rotate on every sink in turn, and Pulley::Rotate calls Rotate on   *)
(* every driven pulley and then SetRotation on the pulley's own source.     *)
(* A stack entry is a call in progress with the index of the next element   *)
(* its loop visits; the last entry is the innermost call.                   *)

\* nothing connected, no call in progress, no Rotate received
NewNet ==
    [wiring   |-> Wiring0,
     wires    |-> 0,
     stack    |-> <<>>,
     calls    |-> [c \in DOMAIN Wiring0.source |-> 0],
     started  |-> FALSE,
     overflow |-> FALSE]

\* a nested call is entered; the call stack of the program is finite
PushCall(n, call) ==
    IF Len(n.stack) >= MaxDepth THEN [n EXCEPT !.overflow = TRUE]
    ELSE [n EXCEPT !.stack = Append(@, call)]

\* s->Rotate(angle, speed) / d->Rotate(childAngle, childSpeed): only a pulley's
\* Rotate makes further calls
CallRotate(n, c) ==
    LET received == [n EXCEPT !.calls[c] = @ + 1]
    IN  IF c \in Pulleys
        THEN PushCall(received, [fn |-> "Rotate", on |-> c, i |-> 1])
        ELSE received

\* mRotationSource->SetRotation(mRotation, mSpeed)
CallSetRotation(n, src) ==
    PushCall(n, [fn |-> "SetRotation", on |-> src, i |-> 1])

\* a step after which a call whose loop is over stays on the stack
CallStep_NeverReturns(n) ==
    LET top      == n.stack[Len(n.stack)]
        w        == n.wiring
        advanced == [n EXCEPT !.stack[Len(n.stack)].i = @ + 1]
    IN  IF top.fn = "SetRotation"
        THEN IF top.i <= Len(w.sinks[top.on])
             THEN CallRotate(advanced, w.sinks[top.on][top.i])
             ELSE n
        ELSE IF top.i <= Len(w.driven[top.on])
             THEN CallRotate(advanced, w.driven[top.on][top.i])
             ELSE IF top.i = Len(w.driven[top.on]) + 1
                  THEN CallSetRotation(advanced, top.on)
                  ELSE n

\* the innermost call in progress takes its next step
CallStep(n) ==
    LET top      == n.stack[Len(n.stack)]
        w        == n.wiring
        advanced == [n EXCEPT !.stack[Len(n.stack)].i = @ + 1]
        returned == [n EXCEPT !.stack = SubSeq(@, 1, Len(@) - 1)]
    IN  IF top.fn = "SetRotation"
        THEN IF top.i <= Len(w.sinks[top.on])
             THEN CallRotate(advanced, w.sinks[top.on][top.i])
             ELSE returned
        ELSE IF top.i <= Len(w.driven[top.on])
             THEN CallRotate(advanced, w.driven[top.on][top.i])
             ELSE IF top.i = Len(w.driven[top.on]) + 1
                  THEN CallSetRotation(advanced, top.on)
                  ELSE returned

\* the components a source or pulley calls directly
Callees(w, x) ==
    IF x \in Sources
    THEN {w.sinks[x][i] : i \in 1..Len(w.sinks[x])} \cup
         (IF x \in Pulleys THEN {w.driven[x][i] : i \in 1..Len(w.driven[x])}
          ELSE {})
    ELSE {}

RECURSIVE Downstream(_, _)
\* everything a set of components calls, directly or through others
Downstream(w, S) ==
    LET T == S \cup UNION {Callees(w, x) : x \in S}
    IN  IF T = S THEN S ELSE Downstream(w, T)

\* no component is downstream of itself
Acyclic(w) == \A x \in Sources : x \notin Downstream(w, Callees(w, x))

\* the wiring AddSink(p1) on the motor's source followed by k - 1 Drive calls
\* along p1, p2, p3
DriveChain(k) ==
    LET head == AddSink(Wiring0, "m1", "p1")
        two  == PulleyDrive(head, "p1", "p2")
    IN  IF k = 1 THEN head
        ELSE IF k = 2 THEN two
        ELSE PulleyDrive(two, "p2", "p3")

----------------------------------------------------------------------------
(* State transitions *)

Install(M) ==
    /\ mCurrFrame'  = M.mCurrFrame
    /\ mFrameRate'  = M.mFrameRate
    /\ worldGen'    = M.worldGen
    /\ worldSteps'  = M.worldSteps
    /\ mDispatch'   = M.mDispatch
    /\ mBody'       = M.mBody
    /\ mState'      = M.mState
    /\ mRotation'   = M.mRotation
    /\ srcRotation' = M.srcRotation
    /\ srcSpeed'    = M.srcSpeed
    /\ pRotation'   = M.pRotation
    /\ pSpeed'      = M.pSpeed
    /\ sRotation'   = M.sRotation
    /\ bodyAngVel'  = M.bodyAngVel
    /\ dispatched'  = M.dispatched
    /\ eSpeed'      = M.eSpeed
    /\ cSpeed'      = M.cSpeed
    /\ bodyType'    = M.bodyType
    /\ bodyPos'     = M.bodyPos
    /\ bodyAngle'   = M.bodyAngle
    /\ bodyLinVel'  = M.bodyLinVel
    /\ bodyGravity' = M.bodyGravity
    /\ sinkLog'     = M.sinkLog
    /\ updateLog'   = M.updateLog
    /\ installLog'  = M.installLog

inputs == <<initiallyRunning, contactStep, contactA, contactB>>

\* the fields of machine 1 and of its components
machine == <<mCurrFrame, mFrameRate, worldGen, worldSteps, mDispatch, mBody,
             mState, mRotation, srcRotation, srcSpeed, pRotation, pSpeed,
             sRotation, bodyAngVel, dispatched, eSpeed, cSpeed, bodyType,
             bodyPos, bodyAngle, bodyLinVel, bodyGravity, sinkLog, updateLog,
             installLog>>

\* the MachineSystem's own fields, other than mCurrentFrame
system == <<sysFrameRate, gCurrentMachineNum, mMachines>>

api == <<lastArgs, apiCalls>>

\* what only the drawing, second-system and polygon operations touch
aux == <<drawLog, systemB, poly, net>>

\* an entry of mMachines that holds no machine
NoMachine == <<>>

\* a machine other than machine 1: GetOrCreateMachine gives it no component
EmptyMachine(rate) ==
    [mFrameRate |-> rate, mCurrFrame |-> 0, worldSteps |-> 0]

\* MachineSystem::GetOrCreateMachine(machineNum), on mMachines
GetOrCreateMachine(machines, machineNum) ==
    IF machineNum # 1 /\ machines[machineNum] = NoMachine
    THEN [machines EXCEPT ![machineNum] = EmptyMachine(sysFrameRate)]
    ELSE machines

\* Machine::SetFrame on a machine without components: one world step
EmptyMachineSetFrame(m, frameIndex) ==
    [m EXCEPT !.mCurrFrame = frameIndex, !.worldSteps = @ + 1]

\* world steps performed by all the machines of the system
TotalSteps ==
    LET RECURSIVE Sum(_)
        Sum(n) == IF n > MaxMachineNum THEN 0
                  ELSE (IF mMachines[n] = NoMachine THEN 0
                        ELSE mMachines[n].worldSteps) + Sum(n + 1)
    IN  worldSteps + Sum(2)

driver == <<pc, nextFrame, targetN, timelineFrame, snapshot>>

\* the bodies the drawn contact may involve: an unregistered static shape, an
\* unregistered dynamic shape and the two registered motor boxes
ContactBodies == {"floor", "ball", "m1", "m2"}

ContactPlans ==
    {<<0, "floor", "ball">>} \cup
    {<<k, a, b>> : k \in 1..MaxContactStep,
                   a \in ContactBodies, b \in ContactBodies}

\* the initial state around a machine M built by a factory
InitFrom(M0, rate, running, plan) ==
    /\ plan[2] # plan[3]
    /\ initiallyRunning = running
    /\ contactStep = plan[1]
    /\ contactA = plan[2]
    /\ contactB = plan[3]
    /\ LET M == M0
       IN  /\ mCurrFrame  = M.mCurrFrame
           /\ mFrameRate  = M.mFrameRate
           /\ worldGen    = M.worldGen
           /\ worldSteps  = M.worldSteps
           /\ mDispatch   = M.mDispatch
           /\ mBody       = M.mBody
           /\ mState      = M.mState
           /\ mRotation   = M.mRotation
           /\ srcRotation = M.srcRotation
           /\ srcSpeed    = M.srcSpeed
           /\ pRotation   = M.pRotation
           /\ pSpeed      = M.pSpeed
           /\ sRotation   = M.sRotation
           /\ bodyAngVel  = M.bodyAngVel
           /\ dispatched  = M.dispatched
           /\ eSpeed      = M.eSpeed
           /\ cSpeed      = M.cSpeed
           /\ bodyType    = M.bodyType
           /\ bodyPos     = M.bodyPos
           /\ bodyAngle   = M.bodyAngle
           /\ bodyLinVel  = M.bodyLinVel
           /\ bodyGravity = M.bodyGravity
           /\ sinkLog     = M.sinkLog
           /\ updateLog   = M.updateLog
           /\ installLog  = M.installLog
    /\ mCurrentFrame = 0
    /\ lastOp = "construct"
    /\ lastArgs = <<>>
    /\ apiCalls = 0
    /\ sysFrameRate = rate
    /\ gCurrentMachineNum = 1
    /\ mMachines = [n \in 2..MaxMachineNum |-> NoMachine]
    /\ seekFrame = <<>>
    /\ drawLog = <<>>
    /\ systemB = NoSystem
    /\ poly = NewPolygon
    /\ net = NewNet
    /\ timelineFrame = 0

InitMachine(rate, running, plan) ==
    InitFrom(Constructed(rate, running), rate, running, plan)

Init ==
    /\ \E running \in [Motors -> BOOLEAN], plan \in ContactPlans :
           InitMachine(DefaultFrameRate, running, plan)
    /\ pc = "free"
    /\ nextFrame = 0
    /\ targetN = 0
    /\ snapshot = <<>>

\* MachineSystem::SetMachineFrame(int frame), whoever calls it
DoSetMachineFrame(frame) ==
    /\ mCurrentFrame' = frame
    /\ IF gCurrentMachineNum = 1
       THEN /\ Install(MachineSetFrame(MachineState, frame))
            /\ UNCHANGED mMachines
       ELSE /\ mMachines' = [GetOrCreateMachine(mMachines, gCurrentMachineNum)
                               EXCEPT ![gCurrentMachineNum] =
                                               EmptyMachineSetFrame(@, frame)]
            /\ UNCHANGED machine
    /\ lastOp' = "SetFrame"
    /\ seekFrame' = <<frame>>
    /\ UNCHANGED <<inputs, api, aux, sysFrameRate, gCurrentMachineNum>>

\* Machine::Reset(), whoever calls it
DoReset ==
    /\ Install(MachineReset(MachineState))
    /\ lastOp' = "Reset"
    /\ UNCHANGED <<mCurrentFrame, inputs, api, aux, system, seekFrame>>

\* a caller seeks to an arbitrary frame
SetMachineFrame(frame) ==
    /\ pc = "free"
    /\ TotalSteps < MaxWorldSteps
    /\ DoSetMachineFrame(frame)
    /\ UNCHANGED driver

\* a caller resets the machine
Reset ==
    /\ pc = "free"
    /\ worldGen < MaxResets
    /\ DoReset
    /\ UNCHANGED driver

Next ==
    \/ \E frame \in 0..MaxFrame : SetMachineFrame(frame)
    \/ Reset

Spec == Init /\ [][Next]_vars

----------------------------------------------------------------------------
(* A driver that steps the machine frame by frame: frames 1..targetN, then *)
(* Reset, then frames 1..targetN again.                                     *)

InitRoundTrip ==
    /\ \E running \in [Motors -> BOOLEAN], plan \in ContactPlans :
           InitMachine(DefaultFrameRate, running, plan)
    /\ pc = "run1"
    /\ nextFrame = 1
    /\ targetN \in 0..MaxFrame
    /\ snapshot = <<>>

StepFrame ==
    /\ pc \in {"run1", "run2"}
    /\ nextFrame <= targetN
    /\ DoSetMachineFrame(nextFrame)
    /\ nextFrame' = nextFrame + 1
    /\ UNCHANGED <<pc, targetN, timelineFrame, snapshot>>

ResetAtN ==
    /\ pc = "run1"
    /\ nextFrame > targetN
    /\ snapshot' = Observable(MachineState)
    /\ DoReset
    /\ pc' = "run2"
    /\ nextFrame' = 1
    /\ UNCHANGED <<targetN, timelineFrame>>

Finish ==
    /\ pc = "run2"
    /\ nextFrame > targetN
    /\ pc' = "done"
    /\ UNCHANGED <<mCurrentFrame, mFrameRate, mCurrFrame, worldGen, worldSteps,
                   mDispatch, mBody, mState, mRotation, srcRotation, srcSpeed,
                   pRotation, pSpeed, sRotation, bodyAngVel, dispatched, inputs,
                   eSpeed, cSpeed, bodyType, bodyPos, bodyAngle, bodyLinVel,
                   bodyGravity, sinkLog, updateLog, installLog, api, aux, system,
                   seekFrame, lastOp, nextFrame, targetN, timelineFrame, snapshot>>

NextRoundTrip == StepFrame \/ ResetAtN \/ Finish

SpecRoundTrip == InitRoundTrip /\ [][NextRoundTrip]_vars

----------------------------------------------------------------------------
(* The two-second scenario: motor m1 starts Active, the machine is stepped  *)
(* frame by frame to simulation time 2 s at one of several frame rates.     *)

InitScenario ==
    /\ \E rate \in ScenarioRates, running \in [Motors -> BOOLEAN],
          plan \in ContactPlans :
           /\ running["m1"]
           /\ InitMachine(rate, running, plan)
           /\ targetN = 2 * rate
    /\ pc = "run1"
    /\ nextFrame = 1
    /\ snapshot = <<>>

NextScenario == StepFrame

SpecScenario == InitScenario /\ [][NextScenario]_vars

----------------------------------------------------------------------------
(* Direct calls on the rotation sources of the machine, between frames.     *)
(* The motors are idle, so every rotation update comes from such a call.    *)

ApiSources == {"m1", "p2", "p3"}

ApiPhases == {60, 180}

ApiSpeeds == {SpeedDen}

RotationPlans ==
    {<<0, "floor", "ball">>, <<1, "ball", "elev">>, <<1, "elev", "ball">>,
     <<1, "elev", "floor">>}

InitRotation ==
    /\ \E plan \in RotationPlans :
           InitMachine(DefaultFrameRate, [m \in Motors |-> FALSE], plan)
    /\ pc = "free"
    /\ nextFrame = 0
    /\ targetN = 0
    /\ snapshot = <<>>

\* RotationSource::SetRotation(angle) called on the source of src
SourceSetRotation(src, angle) ==
    /\ pc = "free"
    /\ apiCalls < MaxApiCalls
    /\ Install(RotationSourceSetRotationPhase(ClearLogs(MachineState), src, angle))
    /\ lastOp' = "SetRotation"
    /\ lastArgs' = <<src, angle>>
    /\ apiCalls' = apiCalls + 1
    /\ UNCHANGED <<mCurrentFrame, inputs, aux, system, seekFrame, driver>>

\* RotationSource::SetRotation(angle, speed) called on the source of src
SourceSetRotationSpeed(src, angle, speed) ==
    /\ pc = "free"
    /\ apiCalls < MaxApiCalls
    /\ Install(RotationSourceSetRotation(ClearLogs(MachineState), src, angle, speed))
    /\ lastOp' = "SetRotationSpeed"
    /\ lastArgs' = <<src, angle, speed>>
    /\ apiCalls' = apiCalls + 1
    /\ UNCHANGED <<mCurrentFrame, inputs, aux, system, seekFrame, driver>>

NextRotation ==
    \/ \E src \in ApiSources, angle \in ApiPhases : SourceSetRotation(src, angle)
    \/ \E src \in ApiSources, angle \in ApiPhases, speed \in ApiSpeeds :
           SourceSetRotationSpeed(src, angle, speed)
    \/ \E frame \in 0..MaxFrame : SetMachineFrame(frame)
    \/ Reset

SpecRotation == InitRotation /\ [][NextRotation]_vars

----------------------------------------------------------------------------
(* The MachineSystem: frame rate, machine selection, elapsed time.  Machine *)
(* 1 is the machine above with its motors idle; the others are empty.       *)

FrameRates == {0 - 30, 0, 15, 30}

TimeDen == 30

\* MachineSystem::ChooseMachine(machine)
ChooseMachine(n) ==
    /\ pc = "free"
    /\ gCurrentMachineNum' = n
    /\ mMachines' = GetOrCreateMachine(mMachines, n)
    /\ lastOp' = "ChooseMachine"
    /\ UNCHANGED <<mCurrentFrame, machine, inputs, api, aux, sysFrameRate, seekFrame,
                   driver>>

\* a SetFrameRate that reaches the active machine only
SetFrameRate_ActiveOnly(rate) ==
    /\ pc = "free"
    /\ sysFrameRate' = rate
    /\ mFrameRate' = IF gCurrentMachineNum = 1 THEN rate ELSE mFrameRate
    /\ mMachines' = [n \in DOMAIN mMachines |->
                       IF mMachines[n] # NoMachine /\ n = gCurrentMachineNum
                       THEN [mMachines[n] EXCEPT !.mFrameRate = rate]
                       ELSE mMachines[n]]
    /\ lastOp' = "SetFrameRate"
    /\ UNCHANGED <<mCurrentFrame, mCurrFrame, worldGen, worldSteps, mDispatch,
                   mBody, mState, mRotation, srcRotation, srcSpeed, pRotation,
                   pSpeed, sRotation, bodyAngVel, dispatched, eSpeed, cSpeed,
                   bodyType, bodyPos, bodyAngle, bodyLinVel, bodyGravity,
                   sinkLog, updateLog, installLog, inputs, api, aux,
                   gCurrentMachineNum, seekFrame, driver>>

\* MachineSystem::SetFrameRate(rate)
SetFrameRate(rate) ==
    /\ pc = "free"
    /\ sysFrameRate' = rate
    /\ mFrameRate' = rate
    /\ mMachines' = [n \in DOMAIN mMachines |->
                       IF mMachines[n] # NoMachine
                       THEN [mMachines[n] EXCEPT !.mFrameRate = rate]
                       ELSE mMachines[n]]
    /\ lastOp' = "SetFrameRate"
    /\ UNCHANGED <<mCurrentFrame, mCurrFrame, worldGen, worldSteps, mDispatch,
                   mBody, mState, mRotation, srcRotation, srcSpeed, pRotation,
                   pSpeed, sRotation, bodyAngVel, dispatched, eSpeed, cSpeed,
                   bodyType, bodyPos, bodyAngle, bodyLinVel, bodyGravity,
                   sinkLog, updateLog, installLog, inputs, api, aux,
                   gCurrentMachineNum, seekFrame, driver>>

\* a GetMachineTime that forgets the division by the frame rate
GetMachineTime_FrameCount == mCurrentFrame * TimeDen

\* MachineSystem::GetMachineTime(), in units of 1/TimeDen second
GetMachineTime ==
    IF sysFrameRate > 0
    THEN (mCurrentFrame * TimeDen) \div sysFrameRate
    ELSE 0

\* MachineSystem::DrawMachine(graphics)
DrawMachine ==
    /\ pc = "free"
    /\ mMachines' = GetOrCreateMachine(mMachines, gCurrentMachineNum)
    /\ drawLog' = MachineDraw(MachineComponents(gCurrentMachineNum))
    /\ lastOp' = "Draw"
    /\ UNCHANGED <<mCurrentFrame, machine, inputs, api, systemB, poly, net,
                   sysFrameRate, gCurrentMachineNum, seekFrame, driver>>

InitSystem ==
    /\ InitMachine(DefaultFrameRate, [m \in Motors |-> FALSE], <<0, "floor", "ball">>)
    /\ pc = "free"
    /\ nextFrame = 0
    /\ targetN = 0
    /\ snapshot = <<>>

NextSystem ==
    \/ \E frame \in 0..MaxFrame : SetMachineFrame(frame)
    \/ \E rate \in FrameRates : SetFrameRate(rate)
    \/ \E n \in 1..MaxMachineNum : ChooseMachine(n)
    \/ DrawMachine

SpecSystem == InitSystem /\ [][NextSystem]_vars

----------------------------------------------------------------------------
(* Handlers registered with the machine's contact listener between frames. *)

\* the components whose body a handler is registered for, and the handlers
AddBodies == {"m1", "ball"}

AddListeners == Motors

InitDispatch ==
    /\ \E plan \in ContactPlans :
           InitMachine(DefaultFrameRate, [m \in Motors |-> FALSE], plan)
    /\ pc = "free"
    /\ nextFrame = 0
    /\ targetN = 0
    /\ snapshot = <<>>

\* mContactListener->Add(c->GetBody(), l)
Add(c, l) ==
    /\ pc = "free"
    /\ apiCalls < MaxApiCalls
    /\ mBody[c] # NoBody
    /\ Install([MachineState EXCEPT
                   !.mDispatch = ContactListenerAdd(@, mBody[c], l)])
    /\ lastOp' = "Add"
    /\ lastArgs' = <<mBody[c], l>>
    /\ apiCalls' = apiCalls + 1
    /\ UNCHANGED <<mCurrentFrame, inputs, aux, system, seekFrame, driver>>

NextDispatch ==
    \/ \E c \in AddBodies, l \in AddListeners : Add(c, l)
    \/ \E frame \in 0..MaxFrame : SetMachineFrame(frame)

SpecDispatch == InitDispatch /\ [][NextDispatch]_vars

----------------------------------------------------------------------------
(* The MachineDrawable that owns the MachineSystem: the timeline gives it   *)
(* frames, it runs the machine from its start frame on.                     *)

\* MachineDrawable::mStartFrame as set by SetStartFrame
mStartFrame == 2

TimelineFrames == 0..(mStartFrame + MaxFrame)

\* MachineDrawable::SetMachineFrame: the frame relative to the start frame,
\* 0 before the start frame
MachineFrameOf(frame) ==
    LET machineFrame == frame - mStartFrame
    IN  IF machineFrame < 0 THEN 0 ELSE machineFrame

\* MachineDrawable::SetMachineFrame(frame), called by GetKeyframe with the
\* timeline's current frame
DrawableSetMachineFrame(frame) ==
    /\ pc = "free"
    /\ TotalSteps < MaxWorldSteps
    /\ timelineFrame' = frame
    /\ DoSetMachineFrame(MachineFrameOf(frame))
    /\ UNCHANGED <<pc, nextFrame, targetN, snapshot>>

NextDrawable ==
    \E frame \in TimelineFrames : DrawableSetMachineFrame(frame)

SpecDrawable == Init /\ [][NextDrawable]_vars

----------------------------------------------------------------------------
(* Drawing a motor at some moment of a run: an active motor has reached    *)
(* some phase and has broadcast it.                                         *)

DrawPhases == {0, 14, 15, 59, 60, 90, 135, 180, 239}

RECURSIVE MotorsAt(_, _, _)
\* the machine once every active motor of ms has reached phase r
MotorsAt(M, ms, r) ==
    IF ms = {} THEN M
    ELSE LET m  == CHOOSE x \in ms : TRUE
             M1 == IF M.mState[m] = "Active"
                   THEN RotationSourceSetRotation([M EXCEPT !.mRotation[m] = r],
                                                  m, r, MotorSpeed[m])
                   ELSE M
         IN  MotorsAt(M1, ms \ {m}, r)

InitMotorDraw ==
    /\ \E running \in [Motors -> BOOLEAN], r \in DrawPhases :
           InitFrom(ClearLogs(MotorsAt(Constructed(DefaultFrameRate, running),
                                       Motors, r)),
                    DefaultFrameRate, running, <<0, "floor", "ball">>)
    /\ pc = "free"
    /\ nextFrame = 0
    /\ targetN = 0
    /\ snapshot = <<>>

\* Motor::Draw(graphics) on motor m
DrawMotor(m) ==
    /\ pc = "free"
    /\ drawLog' = <<MotorDraw(mState[m], mRotation[m], MotorSpeed[m])>>
    /\ lastOp' = "Motor.Draw"
    /\ lastArgs' = <<m>>
    /\ UNCHANGED <<mCurrentFrame, machine, inputs, apiCalls, systemB, poly, net,
                   system, seekFrame, driver>>

NextMotorDraw ==
    \/ \E m \in Motors : DrawMotor(m)
    \/ \E frame \in 0..MaxFrame : SetMachineFrame(frame)

SpecMotorDraw == InitMotorDraw /\ [][NextMotorDraw]_vars

----------------------------------------------------------------------------
(* A machine some of whose components were never installed in the world.   *)

MissingSets == {{"m1", "spoon", "conv", "elev"}, {"spoon", "elev"}}

InitUninstalled ==
    /\ \E missing \in MissingSets, running \in [Motors -> BOOLEAN],
          plan \in ContactPlans :
           /\ plan[2] \notin missing
           /\ plan[3] \notin missing
           /\ InitFrom(ConstructedWithout(DefaultFrameRate, running, missing),
                       DefaultFrameRate, running, plan)
    /\ pc = "free"
    /\ nextFrame = 0
    /\ targetN = 0
    /\ snapshot = <<>>

NextUninstalled ==
    \/ \E l \in AddListeners : Add("ball", l)
    \/ \E frame \in 0..MaxFrame : SetMachineFrame(frame)

SpecUninstalled == InitUninstalled /\ [][NextUninstalled]_vars

----------------------------------------------------------------------------
(* Calls on a PhysicsPolygon that no machine owns, before and after its     *)
(* installation in a world; InstallPhysics may be repeated, as Reset does.  *)

PolyPositions == {<<30, 50>>, <<0 - 20, 10>>}

PolyRotations == {<<60, 0>>, <<120, 0>>}

PolyMaterials == {<<10, 5, 5>>, <<20, 3, 0>>}

\* everything but the polygon, the last call and its arguments
notPoly == <<mCurrentFrame, machine, inputs, apiCalls, drawLog, systemB, net, system,
             seekFrame, driver>>

\* PhysicsPolygon::SetPosition(x, y)
PolySetPosition(position) ==
    /\ poly' = PhysicsPolygonSetPosition(poly, position)
    /\ lastOp' = "Polygon.SetPosition"
    /\ lastArgs' = position
    /\ UNCHANGED notPoly

\* PhysicsPolygon::SetRotation(rotation)
PolySetRotation(rotation) ==
    /\ poly' = PhysicsPolygonSetRotation(poly, rotation)
    /\ lastOp' = "Polygon.SetRotation"
    /\ lastArgs' = rotation
    /\ UNCHANGED notPoly

\* PhysicsPolygon::InstallPhysics(world)
PolyInstallPhysics ==
    /\ poly.created < MaxInstalls
    /\ poly' = PhysicsPolygonInstallPhysics(poly)
    /\ lastOp' = "Polygon.InstallPhysics"
    /\ lastArgs' = <<>>
    /\ UNCHANGED notPoly

\* PhysicsPolygon::SetDynamic()
PolySetDynamic ==
    /\ poly' = PhysicsPolygonSetDynamic(poly)
    /\ lastOp' = "Polygon.SetDynamic"
    /\ lastArgs' = <<>>
    /\ UNCHANGED notPoly

\* PhysicsPolygon::SetKinematic()
PolySetKinematic ==
    /\ poly' = PhysicsPolygonSetKinematic(poly)
    /\ lastOp' = "Polygon.SetKinematic"
    /\ lastArgs' = <<>>
    /\ UNCHANGED notPoly

\* PhysicsPolygon::SetPhysics(density, friction, restitution)
PolySetPhysics(material) ==
    /\ poly' = PhysicsPolygonSetPhysics(poly, material[1], material[2], material[3])
    /\ lastOp' = "Polygon.SetPhysics"
    /\ lastArgs' = material
    /\ UNCHANGED notPoly

NextPolygon ==
    \/ \E position \in PolyPositions : PolySetPosition(position)
    \/ \E rotation \in PolyRotations : PolySetRotation(rotation)
    \/ PolyInstallPhysics
    \/ PolySetDynamic
    \/ PolySetKinematic
    \/ \E material \in PolyMaterials : PolySetPhysics(material)

SpecPolygon == InitSystem /\ [][NextPolygon]_vars

----------------------------------------------------------------------------
(* Two MachineSystem instances in one process, as PictureFactory::Create    *)
(* makes them: the system above (A) and a second one (B).                   *)

\* MachineSystem::GetMachineNumber(), on either instance
GetMachineNumber == gCurrentMachineNum

\* MachineSystem::MachineSystem for B: ChooseMachine(1)
ConstructB ==
    /\ pc = "free"
    /\ systemB = NoSystem
    /\ systemB' = NewSystem
    /\ gCurrentMachineNum' = 1
    /\ lastOp' = "B.construct"
    /\ UNCHANGED <<mCurrentFrame, machine, inputs, api, drawLog, poly, net,
                   sysFrameRate, mMachines, seekFrame, driver>>

\* MachineSystem::ChooseMachine(machine) called on B
ChooseMachineB(n) ==
    /\ pc = "free"
    /\ systemB # NoSystem
    /\ gCurrentMachineNum' = n
    /\ systemB' = [systemB EXCEPT !.created = @ \cup {n}]
    /\ lastOp' = "B.ChooseMachine"
    /\ UNCHANGED <<mCurrentFrame, machine, inputs, api, drawLog, poly, net,
                   sysFrameRate, mMachines, seekFrame, driver>>

NextTwoSystems ==
    \/ \E frame \in 0..MaxFrame : SetMachineFrame(frame)
    \/ \E n \in 1..MaxMachineNum : ChooseMachine(n)
    \/ DrawMachine
    \/ ConstructB
    \/ \E n \in 1..MaxMachineNum : ChooseMachineB(n)

SpecTwoSystems == InitSystem /\ [][NextTwoSystems]_vars

----------------------------------------------------------------------------
(* The machine of the factory that registers motors, conveyor and elevator  *)
(* with the contact listener, run and reset by a caller.                    *)

InitRegistered ==
    /\ \E running \in [Motors -> BOOLEAN], plan \in ContactPlans :
           InitFrom(ConstructedWithHandlers(DefaultFrameRate, running),
                    DefaultFrameRate, running, plan)
    /\ pc = "free"
    /\ nextFrame = 0
    /\ targetN = 0
    /\ snapshot = <<>>

SpecRegistered == InitRegistered /\ [][Next]_vars

----------------------------------------------------------------------------
(* Wiring components together, then one broadcast from the motor's source. *)

NetSources == {"m1", "p3"}

NetSinks == {"p1", "spoon"}

\* everything but the wiring, the last call and its arguments
notNet == <<mCurrentFrame, machine, inputs, apiCalls, drawLog, systemB, poly, system,
            seekFrame, driver>>

\* src->AddSink(sink)
NetAddSink(src, sink) ==
    /\ ~net.started
    /\ net.wires < MaxWires
    /\ net' = [net EXCEPT !.wiring = AddSink(@, src, sink), !.wires = @ + 1]
    /\ lastOp' = "AddSink"
    /\ lastArgs' = <<src, sink>>
    /\ UNCHANGED notNet

\* u->Drive(d)
NetDrive(u, d) ==
    /\ ~net.started
    /\ net.wires < MaxWires
    /\ net' = [net EXCEPT !.wiring = PulleyDrive(@, u, d), !.wires = @ + 1]
    /\ lastOp' = "Drive"
    /\ lastArgs' = <<u, d>>
    /\ UNCHANGED notNet

\* Motor::Update of an active motor: mRotationSource->SetRotation(mRotation, speed)
MotorBroadcast ==
    /\ ~net.started
    /\ net' = CallSetRotation([net EXCEPT !.started = TRUE], "m1")
    /\ lastOp' = "Motor.Update"
    /\ lastArgs' = <<"m1">>
    /\ UNCHANGED notNet

\* the broadcast proceeds by one call, loop iteration or return
BroadcastStep ==
    /\ net.started
    /\ net.stack # <<>>
    /\ ~net.overflow
    /\ net' = CallStep(net)
    /\ lastOp' = "Motor.Update"
    /\ lastArgs' = <<"m1">>
    /\ UNCHANGED notNet

\* the motor's Update has returned
Returned == net.started /\ net.stack = <<>> /\ ~net.overflow

NextNet ==
    \/ \E src \in NetSources, sink \in NetSinks : NetAddSink(src, sink)
    \/ \E u \in Pulleys, d \in Pulleys : u # d /\ NetDrive(u, d)
    \/ MotorBroadcast
    \/ BroadcastStep

SpecNet == InitSystem /\ [][NextNet]_vars

\* a call in progress continues: the program keeps running until Update returns
SpecNetFair == SpecNet /\ WF_vars(BroadcastStep)

----------------------------------------------------------------------------
(* Frame seeking *)

RECURSIVE StepForward(_, _, _)
\* stepping forward one frame at a time: SetFrame(k), SetFrame(k+1), .., SetFrame(f)
StepForward(M, k, f) ==
    IF k > f THEN M ELSE StepForward(MachineSetFrame(M, k), k + 1, f)

\* Reset(); StepForward(0..f) from the known-zero state
Replay(f) == StepForward(Constructed(mFrameRate, initiallyRunning), 1, f)

\* C1: after SetFrame(f), whatever calls came before, the machine state
\* (activation states, phases, speeds, body transforms) is the state
\* reached from the initial state by stepping one frame at a time to f.
C1_SeekEqualsReplay ==
    lastOp = "SetFrame" =>
        Observable(MachineState) = Observable(Replay(mCurrFrame))

\* C2: a SetFrame whose target is below the current frame installs a fresh
\* world (a full Reset) and steps it forward from frame 0 to the target.
C2_BackwardSeekResets ==
    [][(lastOp' = "SetFrame" /\ mCurrFrame' < mCurrFrame)
          => (worldGen' = worldGen + 1 /\ worldSteps' = mCurrFrame')]_vars

\* C3: in every state reached by SetFrame calls, the number of world steps
\* since construction or the last Reset equals the current frame index.
C3_StepsEqualFrame ==
    lastOp = "SetFrame" => worldSteps = mCurrFrame

\* C4: construct, step to N, Reset, step to N again: the component state
\* at the end equals the component state of the first run at frame N.
C4_ResetRoundTrip ==
    pc = "done" => Observable(MachineState) = snapshot

----------------------------------------------------------------------------
(* Rotation propagation *)

\* the belt edges <<U, D>> created by Pulley::Drive
BeltEdges ==
    UNION {{<<u, Wiring.driven[u][i]>> : i \in 1..Len(Wiring.driven[u])} : u \in Pulleys}

\* C5: for every belt edge from U to D, D's speed is U's speed times
\* U.radius / D.radius and D's phase is (U's phase times that ratio) mod 1.
C5_BeltRatio ==
    \A e \in BeltEdges :
        /\ pSpeed[e[2]] * Radius[e[2]] = pSpeed[e[1]] * Radius[e[1]]
        /\ pRotation[e[2]] = Fmod1((pRotation[e[1]] * Radius[e[1]]) \div Radius[e[2]])

\* C6: motor speed 0.25, Active from time 0, pulley of radius 10 driving a
\* pulley of radius 20: at simulation time 2 s the first pulley's phase is
\* 0.5 turns and the second pulley's phase is 0.25 turns.
C6_TwoSecondScenario ==
    (pc = "run1" /\ nextFrame > targetN /\ mCurrFrame = 2 * mFrameRate)
        => (pRotation["p1"] = PhaseDen \div 2 /\ pRotation["p2"] = PhaseDen \div 4)

----------------------------------------------------------------------------
(* Motor activation *)

\* C7: once a motor is Active, no Update or contact callback returns it to
\* Idle as long as the machine is not Reset.
C7_ActivationIrreversible ==
    [][\A m \in Motors :
          (mState[m] = "Active" /\ lastOp' = "SetFrame") => mState'[m] = "Active"]_vars

\* a motor that was hit while already running keeps running through later frames
C7_Witness ==
    \E m \in Motors :
        /\ mState[m] = "Active"
        /\ initiallyRunning[m]
        /\ m \in {contactA, contactB}
        /\ contactStep > 0
        /\ worldSteps > contactStep
        /\ lastOp = "SetFrame"

\* the step delivered a begin-contact event in which body x took part
BeginContactWith(log, x) ==
    \E i \in 1..Len(log) :
        log[i].kind = "BeginContact" /\ x \in {log[i].a, log[i].b}

\* C8: a motor is Active after construction only if configured to start
\* active, and afterwards leaves Idle only in a step whose begin-contact
\* callback reported a contact with the motor's own installed body.
C8_ActivationOnlyByOwnContact ==
    /\ \A m \in Motors : mState[m] = "Active" => initiallyRunning[m]
    /\ [][\A m \in Motors :
             (mState[m] = "Idle" /\ mState'[m] = "Active")
                => (lastOp' = "SetFrame" /\ mBody[m] # NoBody
                    /\ BeginContactWith(dispatched', mBody[m]))]_vars

\* an Idle motor has seen a contact between two other bodies and several
\* updates, and the other motor was activated by its own contact
C8_Witness ==
    \E m \in Motors, o \in Motors :
        /\ m # o
        /\ mState[m] = "Idle"
        /\ mState[o] = "Active"
        /\ ~initiallyRunning[o]
        /\ o \in {contactA, contactB}
        /\ m \notin {contactA, contactB}
        /\ worldSteps > contactStep
        /\ contactStep > 0

RECURSIVE ReachableFrom(_)
\* the sinks reachable from a set of sources through the sink lists
ReachableFrom(S) ==
    LET T == S \cup UNION {{Wiring.sinks[x][i] : i \in 1..Len(Wiring.sinks[x])} :
                             x \in S \cap Sources}
    IN  IF T = S THEN S ELSE ReachableFrom(T)

\* phase and speed of source / sink c
RotationOf(c) ==
    <<IF c \in Sources THEN <<srcRotation[c], srcSpeed[c]>> ELSE <<>>,
      IF c \in Pulleys THEN <<pRotation[c], pSpeed[c]>> ELSE <<>>,
      IF c \in Shapes  THEN <<sRotation[c], bodyAngVel[c]>> ELSE <<>> >>

\* C9: an Update of a motor that is Idle leaves the phase and speed of its
\* RotationSource and of every sink reachable from it unchanged.
C9_IdleMotorSilent ==
    [][\A m \in Motors :
          (lastOp' = "SetFrame" /\ mState'[m] = "Idle")
             => \A c \in ReachableFrom({m}) : RotationOf(c)' = RotationOf(c)]_vars

\* one motor is Idle and has been updated while the other one broadcasts
C9_Witness ==
    /\ lastOp = "SetFrame"
    /\ mCurrFrame > 0
    /\ mState["m2"] = "Idle"
    /\ mState["m1"] = "Active"
    /\ srcSpeed["m1"] # 0
    /\ pRotation["p1"] # 0
    /\ RotationOf("p3") = <<<<0, 0>>, <<0, 0>>, <<>> >>

----------------------------------------------------------------------------
(* Contact dispatch *)

\* C10: every begin-contact or pre-solve event reaches exactly the handlers
\* registered for its two bodies: none when neither body is registered, one
\* when one is, both handlers once each when both are.
C10_DispatchOnlyRegistered ==
    \A i \in 1..Len(dispatched) :
        LET e   == dispatched[i]
            reg == {x \in {e.a, e.b} : x \in DOMAIN mDispatch}
        IN  /\ Len(e.handlers) = Cardinality(reg)
            /\ \A x \in reg :
                  Cardinality({j \in 1..Len(e.handlers) : e.handlers[j] = mDispatch[x]}) = 1
            /\ \A j \in 1..Len(e.handlers) : \E x \in reg : e.handlers[j] = mDispatch[x]

\* a contact between the two registered motor boxes reached both handlers
C10_Witness ==
    \E i \in 1..Len(dispatched) :
        /\ dispatched[i].kind = "BeginContact"
        /\ Len(dispatched[i].handlers) = 2
        /\ {dispatched[i].handlers[1], dispatched[i].handlers[2]} = Motors

----------------------------------------------------------------------------
(* Elevator, rotation sources and sinks *)

ApiOps == {"SetRotation", "SetRotationSpeed"}

\* the state right after the world step of the frame being processed
AfterStep == WorldStep(ClearLogs(MachineState))

CallsFrom(src) == LET Own(e) == e.src = src IN SelectSeq(sinkLog, Own)

\* C12: RotationSource::SetRotation(phase) and SetRotation(phase, speed) store
\* the new values in the source and then invoke the corresponding sink method
\* (SetRotation, resp. Rotate) on every registered sink, once per registration
\* and in registration order.
C12_BroadcastInOrder ==
    lastOp \in ApiOps =>
      LET src   == lastArgs[1]
          calls == CallsFrom(src)
          speed == IF lastOp = "SetRotation" THEN <<>> ELSE <<lastArgs[3]>>
      IN  /\ srcRotation[src] = lastArgs[2]
          /\ lastOp = "SetRotationSpeed" => srcSpeed[src] = lastArgs[3]
          /\ Len(calls) = Len(Wiring.sinks[src])
          /\ \A i \in 1..Len(calls) :
               /\ calls[i].sink = Wiring.sinks[src][i]
               /\ calls[i].method = (IF lastOp = "SetRotation" THEN "SetRotation"
                                     ELSE "Rotate")
               /\ calls[i].angle = lastArgs[2]
               /\ calls[i].speed = speed
               /\ calls[i].stored[1] = lastArgs[2]
               /\ lastOp = "SetRotationSpeed" => calls[i].stored[2] = lastArgs[3]

C12_Witness ==
    /\ lastOp = "SetRotationSpeed"
    /\ lastArgs[1] = "p3"
    /\ Len(CallsFrom("p3")) = 3
    /\ CallsFrom("p3")[1].sink = "conv"
    /\ CallsFrom("p3")[3].sink = "floor"

\* C13: a kinematic Shape with an installed body, wired as a sink, has its
\* body's absolute rotation written from the incoming phase whenever its
\* source broadcasts, phase-only or phase+speed.
C13_KinematicPhaseWritten ==
    lastOp \in ApiOps =>
      \A s \in Shapes :
        (Behavior[s] = "Kinematic" /\ mBody[s] # NoBody
         /\ Wiring.source[s] = lastArgs[1])
          => bodyAngle[s] = Written(lastArgs[2])

\* C14: a static Shape ignores all rotation input: neither a phase-only nor a
\* phase+speed update changes its body's transform, angular velocity or
\* gravity scale.
C14_StaticIgnoresRotation ==
    [][lastOp' \in ApiOps =>
         \A s \in Shapes :
           Behavior[s] = "Static" =>
             /\ bodyPos'[s] = bodyPos[s]
             /\ bodyAngle'[s] = bodyAngle[s]
             /\ bodyAngVel'[s] = bodyAngVel[s]
             /\ bodyGravity'[s] = bodyGravity[s]]_vars

C14_Witness ==
    /\ lastOp = "SetRotationSpeed"
    /\ Behavior["floor"] = "Static"
    /\ Wiring.source["floor"] = lastArgs[1]
    /\ sRotation["floor"] = lastArgs[2]
    /\ mBody["floor"] # NoBody

\* Conveyor::mSpeed or Elevator::mSpeed
StoredSpeed(c) == IF c \in Conveyors THEN cSpeed[c] ELSE eSpeed[c]

\* C15: Conveyor and Elevator ignore phase and store only the incoming speed:
\* a phase-only update leaves their stored speed and all physics state
\* unchanged, and after a (phase, speed) update the stored speed is the
\* incoming speed.
C15_SpeedOnlySinks ==
    [][\A c \in Conveyors \cup Elevators :
         (lastOp' \in ApiOps /\ Wiring.source[c] = lastArgs'[1]) =>
           /\ lastOp' = "SetRotation" =>
                /\ StoredSpeed(c)' = StoredSpeed(c)
                /\ UNCHANGED <<bodyPos, bodyAngle, bodyLinVel, bodyGravity,
                               bodyAngVel, bodyType>>
           /\ lastOp' = "SetRotationSpeed" => StoredSpeed(c)' = lastArgs'[3]]_vars

----------------------------------------------------------------------------
(* MachineSystem *)

\* C16: GetMachineTime returns currentFrame / frameRate, currentFrame being
\* the frame last passed to SetMachineFrame, when the frame rate is positive,
\* and 0 when the frame rate is zero or negative.
C16_MachineTime ==
    seekFrame # <<>> =>
      GetMachineTime = IF sysFrameRate > 0
                       THEN (seekFrame[1] * TimeDen) \div sysFrameRate
                       ELSE 0

C16_Witness ==
    /\ seekFrame = <<MaxFrame>>
    /\ sysFrameRate = 15
    /\ lastOp = "SetFrameRate"
    /\ GetMachineTime = 2 * MaxFrame

\* C17: after any sequence of SetFrameRate and ChooseMachine calls, every
\* machine constructed by the MachineSystem has a frame rate equal to the
\* system's current frame rate.
C17_FrameRatePropagated ==
    /\ mFrameRate = sysFrameRate
    /\ \A n \in DOMAIN mMachines :
         mMachines[n] # NoMachine => mMachines[n].mFrameRate = sysFrameRate

C17_Witness ==
    /\ lastOp = "SetFrameRate"
    /\ sysFrameRate = 15
    /\ gCurrentMachineNum = 2
    /\ mMachines[2] # NoMachine
    /\ mMachines[MaxMachineNum] # NoMachine

----------------------------------------------------------------------------
(* Reset and Update *)

\* the physics-backed components in insertion order
PhysicsBacked ==
    LET Backed(c) == c \in PhysComponents IN SelectSeq(mComponents, Backed)

\* C18: every component's body handle is null or refers to a body of the
\* machine's current world, and Reset reinstalls every physics-backed
\* component exactly once, walking the full component list.
C18_BodiesInCurrentWorld ==
    /\ \A c \in PhysComponents : mBody[c] = NoBody \/ mBody[c][1] = worldGen
    /\ lastOp = "Reset" => installLog = PhysicsBacked

C18_Witness ==
    /\ lastOp = "Reset"
    /\ worldGen = 1
    /\ mCurrFrame > 0
    /\ \A c \in PhysComponents : mBody[c] = Body(1, c)

\* C19: after Reset every physics-backed component's body is at its
\* configured initial position and rotation, with its configured body type
\* and material, however the body moved or was written to before.
C19_ResetRestoresPlacement ==
    lastOp = "Reset" =>
      \A c \in PhysComponents :
        /\ mBody[c] # NoBody
        /\ bodyPos[c] = InitialPlacement
        /\ bodyAngle[c] = InitialPlacement
        /\ bodyType[c] = [type |-> PolygonType[c], material |-> Material[c]]

C19_Witness ==
    /\ lastOp = "Reset"
    /\ lastArgs = <<"p2", 60>>
    /\ seekFrame # <<>>
    /\ eSpeed["elev"] = SpeedDen
    /\ bodyAngle["spoon"] = InitialPlacement
    /\ bodyPos["elev"] = InitialPlacement
    /\ bodyPos["ball"] = InitialPlacement

\* C20: each Machine::Update performs the world step first and then calls
\* Update on every owned component exactly once, in insertion order.
C20_StepThenComponents ==
    lastOp = "SetFrame" => updateLog = <<"Step">> \o mComponents

C20_Witness ==
    /\ lastOp = "SetFrame"
    /\ Len(updateLog) = Len(mComponents) + 1
    /\ updateLog[1] = "Step"
    /\ mState["m1"] = "Active"

----------------------------------------------------------------------------
(* Drawing order *)

IsDrawBelts(e) == e.call = "DrawBelts"

IsDraw(e) == e.call = "Draw"

\* C21: Machine::Draw is two-pass: the belts of every pulley are drawn before
\* the body of any component, and the second pass draws every component of
\* the machine exactly once, in insertion order.
C21_DrawTwoPass ==
    lastOp = "Draw" =>
        LET comps == MachineComponents(gCurrentMachineNum)
            drawn == SelectSeq(drawLog, IsDraw)
            belts == SelectSeq(drawLog, IsDrawBelts)
        IN  /\ \A i, j \in 1..Len(drawLog) :
                   IsDrawBelts(drawLog[i]) /\ IsDraw(drawLog[j]) => i < j
            /\ Len(drawn) = Len(comps)
            /\ \A i \in 1..Len(comps) : drawn[i].c = comps[i]
            /\ \A i \in 1..Len(comps) :
                   comps[i] \in Pulleys =>
                       Cardinality({k \in 1..Len(belts) : belts[k].c = comps[i]}) = 1
            /\ Len(drawn) + Len(belts) = Len(drawLog)

C21_Witness ==
    /\ lastOp = "Draw"
    /\ gCurrentMachineNum = 1
    /\ Len(SelectSeq(drawLog, IsDrawBelts)) = Cardinality(Pulleys)
    /\ Len(SelectSeq(drawLog, IsDraw)) = Len(mComponents)
    /\ \E k \in 1..Len(drawLog) : drawLog[k].to # <<>>

----------------------------------------------------------------------------
(* Frame rates that are not positive *)

\* C22: with a frame rate that is zero or negative, SetMachineFrame,
\* Machine::SetFrame and Machine::Update short-circuit: the seek performs no
\* world step and updates no component.
C22_NonPositiveRateGuarded ==
    [][(lastOp' = "SetFrame" /\ sysFrameRate <= 0) =>
           /\ TotalSteps' = TotalSteps
           /\ updateLog' = updateLog
           /\ mCurrFrame' = mCurrFrame]_vars

----------------------------------------------------------------------------
(* Ownership of the current machine number *)

\* C23: the current machine number is owned by each MachineSystem:
\* constructing a second instance B, or calling B.ChooseMachine(n), never
\* changes what A.GetMachineNumber() returns (nor, therefore, the machine A
\* draws and seeks).
C23_MachineNumberPerInstance ==
    [][lastOp' \in {"B.construct", "B.ChooseMachine"} =>
           GetMachineNumber' = GetMachineNumber]_vars

----------------------------------------------------------------------------
(* Re-registration of a contact handler *)

\* C24: the dispatcher holds at most one handler per body: Add for a body
\* that already has a handler overwrites it, and the events of a later step
\* that involve the body reach the most recently registered handler only.
C24_LastHandlerWins ==
    (lastOp = "SetFrame" /\ lastArgs # <<>>) =>
        \A i \in 1..Len(dispatched) :
            LET e == dispatched[i]
                n == Len(e.handlers)
            IN  /\ n <= Cardinality({e.a, e.b})
                /\ e.a = lastArgs[1] => (n >= 1 /\ e.handlers[1] = lastArgs[2])
                /\ e.b = lastArgs[1] => (n >= 1 /\ e.handlers[n] = lastArgs[2])
                /\ (e.a = lastArgs[1] /\ e.b \notin DOMAIN mDispatch) => n = 1
                /\ (e.b = lastArgs[1] /\ e.a \notin DOMAIN mDispatch) => n = 1

\* motor m2 was registered for the box of motor m1, which the factory had
\* registered for m1: the contact on the box reached m2 and m1 stayed idle
C24_Witness ==
    /\ lastOp = "SetFrame"
    /\ lastArgs = <<Body(worldGen, "m1"), "m2">>
    /\ mState["m1"] = "Idle"
    /\ \E i \in 1..Len(dispatched) :
           /\ dispatched[i].kind = "BeginContact"
           /\ dispatched[i].a = Body(worldGen, "m1")
           /\ dispatched[i].handlers = <<"m2">>

----------------------------------------------------------------------------
(* Pulley::Rotate and the pulley's own rotation source *)

\* C25: Pulley::Rotate stores its values, passes ratio-scaled values to the
\* pulleys it drives and then pushes its own values to its own rotation
\* source; that broadcast reaches non-pulley sinks only, so a pulley
\* registered through Drive gets no second, unscaled update and keeps the
\* ratio-scaled values.
C25_NoSecondUpdateToDriven ==
    lastOp = "SetRotationSpeed" =>
        /\ \A i \in 1..Len(sinkLog) :
               sinkLog[i].src \in Pulleys => sinkLog[i].sink \notin Pulleys
        /\ \A e \in BeltEdges :
               (\E i \in 1..Len(sinkLog) : sinkLog[i].sink = e[1]) =>
                   /\ pSpeed[e[2]] = (pSpeed[e[1]] * Radius[e[1]]) \div Radius[e[2]]
                   /\ pRotation[e[2]] =
                          Fmod1((pRotation[e[1]] * Radius[e[1]]) \div Radius[e[2]])

----------------------------------------------------------------------------
(* The motor's phase *)

\* C26: an active, non-oscillating motor advances its phase by speed times
\* one frame's duration per Update, wrapped into [0, 1): after k consecutive
\* frames from activation at phase 0 the phase is in [0, 1) and equals
\* (speed * k / frameRate) mod 1, for positive and negative speeds.
C26_PhaseAfterKFrames ==
    \A m \in Motors :
        (initiallyRunning[m] /\ lastOp = "SetFrame") =>
            LET k == nextFrame - 1
            IN  /\ mRotation[m] \in 0..(PhaseDen - 1)
                /\ mRotation[m] =
                       Wrap((MotorSpeed[m] * k * PhaseDen) \div (SpeedDen * mFrameRate))

\* C27: the oscillating flag selects the phase law: an active motor with
\* oscillation enabled has phase amplitude * sin(2 pi speed t) + amplitude,
\* which never leaves [0, 2 * amplitude]; with the flag off the motor
\* rotates at constant speed.
C27_OscillationBounded ==
    \A m \in Motors :
        (mIsOscillating[m] /\ mState[m] = "Active") =>
            mRotation[m] \in 0..(2 * mSpread[m])

\* C28: on every Update while Active the motor re-broadcasts its values:
\* after the update its source's stored phase and speed are the motor's
\* phase and configured speed, and a pulley attached directly to the motor
\* was called with, and holds, the same phase and speed.
C28_ActiveMotorBroadcasts ==
    lastOp = "SetFrame" =>
        \A m \in Motors :
            mState[m] = "Active" =>
                /\ srcRotation[m] = mRotation[m]
                /\ srcSpeed[m] = MotorSpeed[m]
                /\ \A p \in Pulleys :
                       Wiring.source[p] = m =>
                           /\ pRotation[p] = mRotation[m]
                           /\ pSpeed[p] = MotorSpeed[m]
                           /\ \E i \in 1..Len(sinkLog) :
                                  /\ sinkLog[i].src = m
                                  /\ sinkLog[i].sink = p
                                  /\ sinkLog[i].method = "Rotate"
                                  /\ sinkLog[i].angle = mRotation[m]
                                  /\ sinkLog[i].speed = <<MotorSpeed[m]>>

\* both motors active, the second one started by a contact, and phases that moved
C28_Witness ==
    /\ lastOp = "SetFrame"
    /\ \A m \in Motors : mState[m] = "Active" /\ mRotation[m] # 0
    /\ ~initiallyRunning["m2"]
    /\ pRotation["p1"] = mRotation["m1"]
    /\ pRotation["p3"] = mRotation["m2"]

----------------------------------------------------------------------------
(* PhysicsPolygon *)

\* C29: before InstallPhysics, SetPosition / SetRotation write and
\* GetPosition / GetRotation read the cached initial placement; after
\* InstallPhysics they write and read the body's transform only, the cached
\* placement is not modified, and SetPosition also sets the gravity scale to 0.
C29_PolygonAccessors ==
    [][/\ (lastOp' = "Polygon.SetPosition" /\ poly.mBody = NoBody) =>
              /\ poly'.mBody = NoBody
              /\ poly'.mInitialPosition = lastArgs'
              /\ poly'.mInitialRotation = poly.mInitialRotation
              /\ PhysicsPolygonGetPosition(poly') = lastArgs'
       /\ (lastOp' = "Polygon.SetRotation" /\ poly.mBody = NoBody) =>
              /\ poly'.mBody = NoBody
              /\ poly'.mInitialRotation = TimesTwoPi(lastArgs')
              /\ poly'.mInitialPosition = poly.mInitialPosition
              /\ PhysicsPolygonGetRotation(poly') = lastArgs'
       /\ (lastOp' = "Polygon.SetPosition" /\ poly.mBody # NoBody) =>
              /\ poly'.mInitialPosition = poly.mInitialPosition
              /\ poly'.mInitialRotation = poly.mInitialRotation
              /\ poly'.mBody.position = ToMeters(lastArgs')
              /\ poly'.mBody.angle = poly.mBody.angle
              /\ poly'.mBody.gravityScale = 0
              /\ PhysicsPolygonGetPosition(poly') = lastArgs'
       /\ (lastOp' = "Polygon.SetRotation" /\ poly.mBody # NoBody) =>
              /\ poly'.mInitialPosition = poly.mInitialPosition
              /\ poly'.mInitialRotation = poly.mInitialRotation
              /\ poly'.mBody.angle = TimesTwoPi(lastArgs')
              /\ poly'.mBody.position = poly.mBody.position
              /\ PhysicsPolygonGetRotation(poly') = lastArgs'
       /\ (lastOp' = "Polygon.InstallPhysics" /\ poly.mBody = NoBody) =>
              /\ PhysicsPolygonGetPosition(poly') = PhysicsPolygonGetPosition(poly)
              /\ PhysicsPolygonGetRotation(poly') = PhysicsPolygonGetRotation(poly)]_vars

\* an installed polygon was moved: the body is at the new position, without
\* gravity, while the cached placement is still the one it was installed at
C29_Witness ==
    /\ lastOp = "Polygon.SetPosition"
    /\ poly.mBody # NoBody
    /\ poly.mBody.gravityScale = 0
    /\ PhysicsPolygonGetPosition(poly) = lastArgs
    /\ poly.mInitialPosition # lastArgs
    /\ poly.mInitialPosition # <<0, 0>>
    /\ PhysicsPolygonGetRotation(poly) # <<0, 0>>

\* C30: the material and body type are immutable after installation:
\* SetPhysics, SetDynamic or SetKinematic called after InstallPhysics do not
\* change the stored body type, density, friction or restitution, and so
\* cannot change what a later installation by Reset uses.
C30_ImmutableAfterInstall ==
    [][(poly.mBody # NoBody /\
        lastOp' \in {"Polygon.SetPhysics", "Polygon.SetDynamic",
                     "Polygon.SetKinematic"}) =>
           /\ poly'.mType = poly.mType
           /\ poly'.mDensity = poly.mDensity
           /\ poly'.mFriction = poly.mFriction
           /\ poly'.mRestitution = poly.mRestitution]_vars

----------------------------------------------------------------------------
(* Components without a body *)

----------------------------------------------------------------------------
(* Elapsed time of the active machine *)

\* Machine::mCurrFrame of the machine selected by gCurrentMachineNum
ActiveMachineFrame ==
    IF gCurrentMachineNum = 1 THEN mCurrFrame
    ELSE IF mMachines[gCurrentMachineNum] = NoMachine THEN 0
    ELSE mMachines[gCurrentMachineNum].mCurrFrame

\* C32: after ChooseMachine switches the active machine, GetMachineTime is
\* the newly active machine's own current frame divided by the frame rate,
\* not the frame last set on the previously active machine.
C32_TimeOfActiveMachine ==
    (lastOp = "ChooseMachine" /\ sysFrameRate > 0) =>
        GetMachineTime = (ActiveMachineFrame * TimeDen) \div sysFrameRate

----------------------------------------------------------------------------
(* The motor's image *)

\* C33: an idle motor shows the idle image (index 0); an active motor with
\* phase in [0, 1) shows image (floor(phase * 16) mod 4) + 1, always in 1..4;
\* the artwork is mirrored exactly when the speed is negative, and the wheel
\* is drawn only when the motor is active.
C33_MotorImage ==
    lastOp = "Motor.Draw" =>
        LET m == lastArgs[1]
            d == drawLog[1]
        IN  /\ mState[m] = "Idle" => d.image = <<0>>
            /\ mState[m] = "Active" =>
                   /\ mRotation[m] \in 0..(PhaseDen - 1)
                   /\ Len(d.image) = 1
                   /\ d.image[1] \in 1..4
                   /\ \E q \in 0..15 :
                          /\ q * PhaseDen <= mRotation[m] * 16
                          /\ mRotation[m] * 16 < (q + 1) * PhaseDen
                          /\ d.image[1] = (q % 4) + 1
            /\ d.mirrored <=> MotorSpeed[m] < 0
            /\ d.wheel <=> mState[m] = "Active"

\* an active motor past the first quarter turn shows the second image of
\* the second sub-cycle
C33_Witness ==
    /\ lastOp = "Motor.Draw"
    /\ mState[lastArgs[1]] = "Active"
    /\ mRotation[lastArgs[1]] >= PhaseDen \div 4
    /\ drawLog[1].image = <<2>>
    /\ drawLog[1].wheel

----------------------------------------------------------------------------
(* The drawable's start frame *)

\* C34: MachineDrawable::SetMachineFrame forwards max(0, frame - startFrame)
\* to the machine system, never a negative frame, and a timeline frame at or
\* before the start frame does not advance the machine's physics state.
C34_NoAdvanceBeforeStart ==
    [][lastOp' = "SetFrame" =>
           /\ mCurrentFrame' >= 0
           /\ mCurrentFrame' = IF timelineFrame' > mStartFrame
                               THEN timelineFrame' - mStartFrame ELSE 0
           /\ timelineFrame' <= mStartFrame =>
                  /\ worldSteps' = worldSteps
                  /\ bodyPos' = bodyPos
                  /\ bodyLinVel' = bodyLinVel]_vars

\* C35: one broadcast from the motor over a wiring without a cycle returns
\* after finitely many Rotate calls, and the call stack grows without bound
\* only when the wiring has a cycle.
C35_AcyclicBroadcastTerminates ==
    /\ [](net.overflow => ~Acyclic(net.wiring))
    /\ (net.started /\ Acyclic(net.wiring)) ~> Returned

C35_Witness ==
    /\ Returned
    /\ Acyclic(net.wiring)
    /\ net.wiring = DriveChain(3)
    /\ \A p \in Pulleys : net.calls[p] > 0

\* C36: in a chain of pulleys linked by Drive, one broadcast from the motor
\* delivers exactly one Rotate to every pulley of the chain, whatever the
\* length of the chain.
C36_OneUpdatePerPulley ==
    \A k \in 1..3 :
        (Returned /\ net.wiring = DriveChain(k)) =>
            \A p \in Pulleys :
                net.calls[p] = IF p \in {"p1", "p2", "p3"}
                                    /\ (p = "p2" => k >= 2) /\ (p = "p3" => k >= 3)
                               THEN 1 ELSE 0

\* C37: every component that has a contact handler registered for its body
\* before Machine::Reset has the same handler registered for its new body
\* after it.
C37_ResetKeepsHandlers ==
    [][lastOp' = "Reset" =>
           \A c \in PhysComponents :
               (mBody[c] # NoBody /\ mBody[c] \in DOMAIN mDispatch) =>
                   /\ mBody'[c] \in DOMAIN mDispatch'
                   /\ mDispatch'[mBody'[c]] = mDispatch[mBody[c]]]_vars

\* C38: every SetMachineFrame / Machine::SetFrame steps the world exactly once
\* and calls every component's Update exactly once with the time
\* frame / frameRate, whether the frame is after, at or before the previous
\* one; a seek never resets the machine.
C38_SeekIsOneStep ==
    [][(lastOp' = "SetFrame" /\ gCurrentMachineNum = 1) =>
           LET frame == seekFrame'[1]
           IN  /\ mCurrFrame' = frame
               /\ worldSteps' = worldSteps + 1
               /\ updateLog' = <<"Step">> \o mComponents
               /\ worldGen' = worldGen
               /\ installLog' = <<>>
               /\ DOMAIN mDispatch' = DOMAIN mDispatch
               /\ mBody' = mBody
               /\ \A m \in Motors :
                      mRotation'[m] =
                          IF mState'[m] = "Active"
                          THEN Wrap(mRotation[m] +
                                    ((MotorSpeed[m] * frame * PhaseDen)
                                         \div (SpeedDen * mFrameRate)))
                          ELSE mRotation[m]]_vars

\* a seek to frame 3 followed by a seek back to frame 1
C38_Witness ==
    /\ lastOp = "SetFrame"
    /\ initiallyRunning["m1"]
    /\ worldGen = 0
    /\ worldSteps = 2
    /\ mCurrFrame = 1
    /\ mRotation["m1"] = Wrap((MotorSpeed["m1"] * (3 + 1) * PhaseDen)
                                 \div (SpeedDen * mFrameRate))
    /\ updateLog = <<"Step">> \o mComponents

\* C39: machines are created once and retained: a ChooseMachine changes no
\* machine that already exists (components, current frame, motor states and
\* physics stay as they were), and what GetMachineNumber returns on a system
\* is the argument of the most recent ChooseMachine on that system, so it
\* changes only by a ChooseMachine on that system.
C39_MachinesRetained ==
    [][/\ lastOp' = "ChooseMachine" =>
              /\ MachineState' = MachineState
              /\ \A n \in DOMAIN mMachines :
                     mMachines[n] # NoMachine => mMachines'[n] = mMachines[n]
              /\ GetMachineNumber' = 1 \/ mMachines'[GetMachineNumber'] # NoMachine
       /\ GetMachineNumber' # GetMachineNumber => lastOp' = "ChooseMachine"]_vars

\* C40: after any sequence of AddSink and Drive calls, the source a component
\* refers to as its upstream source is S exactly when the component is in the
\* sink list of S.
C40_BackReferenceMatchesSinkLists ==
    \A c \in DOMAIN net.wiring.source, S \in Sources :
        net.wiring.source[c] = S <=>
            \E i \in 1..Len(net.wiring.sinks[S]) : net.wiring.sinks[S][i] = c

====
